---- MODULE Spec2Model ----
(***************************************************************************)
(* A state-machine model of src/game.js ("Mouse Dash!"): the Game object,  *)
(* its Player, Item and Hazard entities, the per-frame Game.update and the *)
(* key handler Game.onKeyDown.                                             *)
(*                                                                         *)
(* Numbers.  The program computes its times, places and velocities in      *)
(* JavaScript numbers, IEEE 754 double-precision values, and its tests     *)
(* (a timer that has reached 0, a distance below a radius, a centre beyond *)
(* a wall) see the rounding of every operation.  The model computes the    *)
(* same values: a double is a record of its sign and of the exponent and   *)
(* the 53 bits of its significand, and DAdd, DSub, DMul, DDiv and DSqrt    *)
(* round to nearest, ties to even, as the operators +, -, *, / and         *)
(* Math.sqrt do.  Math.hypot, which ECMAScript leaves to the               *)
(* implementation, is computed as V8 computes it.  Only finite values of   *)
(* the normal range occur, and -0 is not told from 0 (the program never    *)
(* divides by a zero or takes the sign of one).  Scores, lives and the     *)
(* combo count are integers.                                               *)
(*                                                                         *)
(* A frame is one call of tick: Game.update(dt, keys) with dt the time     *)
(* since the frame before, an input in whole milliseconds, divided by 1000 *)
(* and cut at 0.05 s.                                                      *)
(*                                                                         *)
(* Math.random is an input: each spawn call draws from a stream of values  *)
(* of Math.random chosen among a few fixed ones (see HazardDraws,          *)
(* ItemDraws, VelocityDraws), each value a multiple of 1 / 1024.            *)
(*                                                                         *)
(* Not modelled (draw-only state, never read by update or onKeyDown):      *)
(* timeAcc, Player.trail / animTime / animIndex / lastMove, Item.wobble,   *)
(* the positions, velocities and colours of particles and floating texts.  *)
(***************************************************************************)

EXTENDS Integers, Sequences, FiniteSets, TLC

(* ------------------------------- doubles ------------------------------- *)

\* The steps of a handler follow one another on the Game object: each
\* step's result is written as the one element of a set, from which the next
\* step takes it.
Only(S) == CHOOSE x \in S : TRUE

\* A double that is not 0 is sign * (hi * Limb + lo) * 2^exp, with sign 1 or
\* -1 and 2^52 <= hi * Limb + lo < 2^53; 0 is Zero.  Equal numbers are equal
\* records.  An operator's intermediate values are the arguments of the
\* operator that goes on with them.
Limb == 2^28

Zero == [sign |-> 0, exp |-> 0, hi |-> 0, lo |-> 0]

\* The number of bits of n, 0 <= n < 2^31.
BitLen(n) ==
  CHOOSE k \in 0..31 : (k = 31 \/ n < 2^k) /\ (k = 0 \/ n >= 2^(k - 1))

\* The last bit of lo set if bits were lost beyond it.
Sticky(lo, sticky) == IF sticky /\ lo % 2 = 0 THEN lo + 1 ELSE lo

\* The significand mh * Limb + ml of 53 bits, one more if the three bits r
\* that followed it say so: to nearest, ties to even.
Rounded(sign, exp, mh, ml, r) ==
  IF r < 4 \/ (r = 4 /\ ml % 2 = 0)
  THEN [sign |-> sign, exp |-> exp, hi |-> mh, lo |-> ml]
  ELSE IF ml + 1 < Limb
  THEN [sign |-> sign, exp |-> exp, hi |-> mh, lo |-> ml + 1]
  ELSE IF mh + 1 < Limb \div 8
  THEN [sign |-> sign, exp |-> exp, hi |-> mh + 1, lo |-> 0]
  ELSE [sign |-> sign, exp |-> exp + 1, hi |-> Limb \div 16, lo |-> 0]

\* Rounding to nearest, ties to even, of a significand of 56 bits
\* (2^55 <= hi * Limb + lo < 2^56) whose last three bits are the guard, the
\* round and the sticky bit.
Round(sign, exp, hi, lo) ==
  Rounded(sign, exp + 3, hi \div 8, (hi % 8) * (Limb \div 8) + lo \div 8,
          lo % 8)

\* The number of bits by which hi * Limb + lo is short of 56 bits; -1 if it
\* has 57.
Lead(hi, lo) ==
  IF hi >= Limb THEN 0 - 1
  ELSE IF hi > 0 THEN 28 - BitLen(hi)
  ELSE 56 - BitLen(lo)

\* The double nearest to sign * (hi * Limb + lo) * 2^exp, the significand
\* being k bits short of 56.
Normal(sign, exp, hi, lo, k) ==
  Round(sign, exp - k,
        IF k < 0 THEN hi \div 2
        ELSE IF k < 28 THEN hi * 2^k + lo \div 2^(28 - k)
        ELSE lo * 2^(k - 28),
        IF k < 0 THEN Sticky(lo \div 2 + (hi % 2) * (Limb \div 2), lo % 2 = 1)
        ELSE IF k < 28 THEN (lo % 2^(28 - k)) * 2^k
        ELSE 0)

\* The double nearest to sign * (hi * Limb + lo) * 2^exp, for
\* 0 < hi * Limb + lo < 2^57 whose last bit is a sticky bit if more than 56
\* bits are significant.
Pack(sign, exp, hi, lo) == Normal(sign, exp, hi, lo, Lead(hi, lo))

\* The double sign * m for the integer m of b bits, 0 < m < 2^31, which is
\* exact.
Whole(sign, m, b) ==
  [sign |-> sign, exp |-> b - 53,
   hi |-> IF b <= 25 THEN m * 2^(25 - b) ELSE m \div 2^(b - 25),
   lo |-> IF b <= 25 THEN 0 ELSE (m % 2^(b - 25)) * 2^(53 - b)]

\* The double whose value is the integer n, |n| < 2^31.
Dbl(n) ==
  IF n = 0 THEN Zero
  ELSE IF n > 0 THEN Whole(1, n, BitLen(n))
  ELSE Whole(0 - 1, 0 - n, BitLen(0 - n))

\* x * 2^k, which is exact.
Scaled(x, k) == IF x.sign = 0 THEN x ELSE [x EXCEPT !.exp = x.exp + k]

\* -x and Math.abs(x)
DNeg(x) == [x EXCEPT !.sign = 0 - x.sign]
DAbs(x) == [x EXCEPT !.sign = IF x.sign = 0 THEN 0 ELSE 1]

\* |x| < |y|
Smaller(x, y) ==
  IF y.sign = 0 THEN FALSE
  ELSE IF x.sign = 0 THEN TRUE
  ELSE \/ x.exp < y.exp
       \/ x.exp = y.exp /\ (x.hi < y.hi \/ (x.hi = y.hi /\ x.lo < y.lo))

\* x < y and x <= y
DLess(x, y) ==
  IF x.sign # y.sign THEN x.sign < y.sign
  ELSE IF x.sign = 1 THEN Smaller(x, y)
  ELSE IF x.sign = 0 THEN FALSE
  ELSE Smaller(y, x)
DLeq(x, y) == ~DLess(y, x)

\* Math.max(x, y) and Math.min(x, y)
DMax(x, y) == IF DLess(x, y) THEN y ELSE x
DMin(x, y) == IF DLess(y, x) THEN y ELSE x

\* The sum or the difference of ah * Limb + al and bh * Limb + bl, in which
\* the first is not the smaller.
Joined(sign, same, exp, ah, al, bh, bl) ==
  IF ~same /\ ah = bh /\ al = bl THEN Zero
  ELSE Pack(sign, exp,
            IF same THEN ah + bh + (al + bl) \div Limb
            ELSE IF al >= bl THEN ah - bh
            ELSE ah - bh - 1,
            IF same THEN (al + bl) % Limb
            ELSE IF al >= bl THEN al - bl
            ELSE al - bl + Limb)

\* The significand of x, three bits further to the left, in two limbs.
Hi3(x) == x.hi * 8 + x.lo \div (Limb \div 8)
Lo3(x) == (x.lo % (Limb \div 8)) * 8

\* h * Limb + l shifted d bits to the right, d >= 0, with a sticky bit for
\* what falls off.
DownHi(h, l, d) == IF d = 0 THEN h ELSE IF d < 28 THEN h \div 2^d ELSE 0
DownLo(h, l, d) ==
  IF d = 0 THEN l
  ELSE IF d < 28
  THEN Sticky(l \div 2^d + (h % 2^d) * 2^(28 - d), l % 2^d # 0)
  ELSE IF d < 56 THEN Sticky(h \div 2^(d - 28), h % 2^(d - 28) # 0 \/ l # 0)
  ELSE 1

\* a + b for |a| >= |b| > 0: b is shifted to the exponent of a, three bits
\* further, with a sticky bit for what falls off.
Sum(a, b) ==
  Joined(a.sign, a.sign = b.sign, a.exp - 3, Hi3(a), Lo3(a),
         DownHi(Hi3(b), Lo3(b), a.exp - b.exp),
         DownLo(Hi3(b), Lo3(b), a.exp - b.exp))

\* x + y
DAdd(x, y) ==
  IF x.sign = 0 THEN y
  ELSE IF y.sign = 0 THEN x
  ELSE Sum(IF Smaller(x, y) THEN y ELSE x, IF Smaller(x, y) THEN x ELSE y)

\* x - y
DSub(x, y) == DAdd(x, DNeg(y))

\* The base of the digits the significands are split in to be multiplied and
\* divided.
Radix == 2^14

\* The four digits of the significand of x, the lowest first.
Quad(x) ==
  << x.lo % Radix, x.lo \div Radix, x.hi % Radix, x.hi \div Radix >>

\* The sums of the products of the digits a and b that have the same weight,
\* the lowest first.
Columns(a, b) ==
  << a[1] * b[1],
     a[1] * b[2] + a[2] * b[1],
     a[1] * b[3] + a[2] * b[2] + a[3] * b[1],
     a[1] * b[4] + a[2] * b[3] + a[3] * b[2] + a[4] * b[1],
     a[2] * b[4] + a[3] * b[3] + a[4] * b[2],
     a[3] * b[4] + a[4] * b[3],
     a[4] * b[4] >>

\* Column k of c with what the columns below it carry into it.
RECURSIVE Carried(_, _)
Carried(c, k) ==
  IF k = 1 THEN c[1] ELSE c[k] + Carried(c, k - 1) \div Radix

\* The double nearest to sign * 2^exp times the number whose digits are
\* t[k] % Radix: its 56 leading bits, with a sticky bit for the others.
Product(sign, exp, t) ==
  Pack(sign, exp,
       (t[6] % Radix) \div 128 + (t[7] % Radix) * 128
         + (t[7] \div Radix) * 2^21,
       Sticky((t[4] % Radix) \div 128 + (t[5] % Radix) * 128
                + ((t[6] % Radix) % 128) * 2^21,
              \/ (t[4] % Radix) % 128 # 0 \/ t[3] % Radix # 0
              \/ t[2] % Radix # 0 \/ t[1] % Radix # 0))

\* The columns of c, each with its carry.
Carries(c) == [k \in 1..7 |-> Carried(c, k)]

\* x * y: the product of the significands, four digits each.
DMul(x, y) ==
  IF x.sign = 0 \/ y.sign = 0 THEN Zero
  ELSE Product(x.sign * y.sign, x.exp + y.exp + 49,
               Carries(Columns(Quad(x), Quad(y))))

\* Pairs of limbs: [h, l] is the integer h * Limb + l.
Less2(ah, al, bh, bl) == ah < bh \/ (ah = bh /\ al < bl)
Sub2(ah, al, bh, bl) ==
  IF al >= bl THEN [h |-> ah - bh, l |-> al - bl]
  ELSE [h |-> ah - bh - 1, l |-> al - bl + Limb]

\* r * 2^14 - est * y in two limbs, for r = rh * Limb + rl and
\* y = yh * Limb + yl, from the digits f of the difference, the lowest first.
Limbs(f) ==
  [h |-> f[3] + ((f[1] + f[2] * Radix) \div Limb) + (f[4] + f[5] * Radix) * Radix,
   l |-> (f[1] + f[2] * Radix) % Limb]
Left(rh, rl, e) ==
  Limbs(<< 0 - (e[1] % Radix),
           (rl % Radix) - (e[1] \div Radix) - (e[2] % Radix),
           (rl \div Radix) - (e[2] \div Radix) - (e[3] % Radix),
           (rh % Radix) - (e[3] \div Radix) - (e[4] % Radix),
           (rh \div Radix) - (e[4] \div Radix) >>)

\* The digit d and the remainder r, the digit one more and the remainder y
\* less for as long as y is not above the remainder.
RECURSIVE Settled(_, _, _, _)
Settled(r, yh, yl, d) ==
  IF Less2(r.h, r.l, yh, yl) THEN [h |-> r.h, l |-> r.l, d |-> d]
  ELSE Settled(Sub2(r.h, r.l, yh, yl), yh, yl, d + 1)

\* The digit est, which is not too large, of the division of r * 2^14 by y.
Tried(rh, rl, yh, yl, est) ==
  Settled(Left(rh, rl, << est * (yl % Radix), est * (yl \div Radix),
                          est * (yh % Radix), est * (yh \div Radix) >>),
          yh, yl, est)

\* One digit, in base 2^14, of the long division by y = yh * Limb + yl of a
\* remainder r = rh * Limb + rl < y: d is the integer part of r * 2^14 / y
\* and [h, l] the new remainder.  The digit is first estimated, from below
\* and at most 2 too small, from the 29 and 15 leading bits.
DivDigit(rh, rl, yh, yl) ==
  Tried(rh, rl, yh, yl, (rh * 16 + (rl \div 2^24)) \div ((yh \div 2^10) + 1))

\* The next n digits of the division by y of the remainder r, each with the
\* remainder it leaves.
RECURSIVE Quotient(_, _, _, _)
After(d, yh, yl, n) == << d >> \o Quotient(d, yh, yl, n - 1)
Quotient(r, yh, yl, n) ==
  IF n = 0 THEN << >> ELSE After(DivDigit(r.h, r.l, yh, yl), yh, yl, n)

\* The double nearest to sign * 2^exp times the quotient whose leading bit
\* is one and whose digits are q, the last remainder kept as a sticky bit.
Ratio(sign, exp, one, q) ==
  Pack(sign, exp, one * Limb + q[1].d * Radix + q[2].d,
       Sticky(q[3].d * Radix + q[4].d, q[4].h # 0 \/ q[4].l # 0))

\* x / y, y # 0: the quotient of the significands to 57 bits.
DDiv(x, y) ==
  IF x.sign = 0 THEN Zero
  ELSE Ratio(x.sign * y.sign, x.exp - y.exp - 56,
             IF Less2(x.hi, x.lo, y.hi, y.lo) THEN 0 ELSE 1,
             Quotient(IF Less2(x.hi, x.lo, y.hi, y.lo)
                      THEN [h |-> x.hi, l |-> x.lo]
                      ELSE Sub2(x.hi, x.lo, y.hi, y.lo),
                      y.hi, y.lo, 4))

\* The integer part of v / 2^98 for v the sum of g[k] * 2^(14 * (k - 1)),
\* k in 1..8: v >= 0 exactly if it is not negative.
Top(g) ==
  g[8] + ((g[7] + ((g[6] + ((g[5] + ((g[4] + ((g[3] + ((g[2] + (g[1] \div Radix))
    \div Radix)) \div Radix)) \div Radix)) \div Radix)) \div Radix)) \div Radix)

\* The digits of m * 2^52 - c^2 before the carries, the lowest first, for
\* the digits c of a root and m = mh * Limb + ml.
Residue(c, mh, ml) ==
  << 0 - c[1] * c[1],
     0 - 2 * c[1] * c[2],
     0 - 2 * c[1] * c[3] - c[2] * c[2],
     (ml % 16) * 2^10 - 2 * (c[1] * c[4] + c[2] * c[3]),
     ((ml \div 16) % Radix) - 2 * c[2] * c[4] - c[3] * c[3],
     (ml \div 2^18) + (mh % 16) * 2^10 - 2 * c[3] * c[4],
     ((mh \div 16) % Radix) - c[4] * c[4],
     mh \div 2^18 >>

\* Whether the root of digits c is the integer nearest to the square root
\* of the number it leaves the residue d of (1 - c <= d <= c): 0 if it is,
\* 1 if it is too small, -1 if it is too large.
Fit(c, d) ==
  IF Top([k \in 1..8 |-> (IF k <= 4 THEN c[k] ELSE 0) - d[k]]) < 0 THEN 1
  ELSE IF Top([k \in 1..8 |-> d[k] + (IF k <= 4 THEN c[k] ELSE 0)
                                - (IF k = 1 THEN 1 ELSE 0)]) < 0
  THEN 0 - 1
  ELSE 0

\* Whether c = ch * Limb + cl is the integer nearest to the square root of
\* m * 2^52, m = mh * Limb + ml ((c - 1/2)^2 < m * 2^52 < (c + 1/2)^2).
SqrtFit(c, mh, ml) == Fit(Quad(c), Residue(Quad(c), mh, ml))

\* The integer nearest to the square root of m * 2^52, found from c by
\* steps of one.
RECURSIVE SqrtNear(_, _, _)
Stepped(c, mh, ml, fit) ==
  IF fit = 0 THEN c
  ELSE IF fit = 1
  THEN (IF c.lo + 1 < Limb
        THEN SqrtNear([c EXCEPT !.lo = c.lo + 1], mh, ml)
        ELSE SqrtNear([c EXCEPT !.hi = c.hi + 1, !.lo = 0], mh, ml))
  ELSE (IF c.lo > 0
        THEN SqrtNear([c EXCEPT !.lo = c.lo - 1], mh, ml)
        ELSE SqrtNear([c EXCEPT !.hi = c.hi - 1, !.lo = Limb - 1], mh, ml))
SqrtNear(c, mh, ml) == Stepped(c, mh, ml, SqrtFit(c, mh, ml))

\* The integer part of the square root of n, 2^26 <= n < 2^28: k steps of
\* Heron's iteration on from r.
RECURSIVE Heron(_, _, _)
Heron(n, r, k) ==
  IF k = 0 THEN (IF r * r > n THEN r - 1 ELSE r)
  ELSE Heron(n, (r + (n \div r)) \div 2, k - 1)
Root28(n) == Heron(n, (Radix + (n \div Radix)) \div 2, 3)

\* The first value of a root of exponent e: y / 2, of which only the
\* significand is kept.
FirstRoot(y, e) ==
  IF y.exp - 1 = e THEN [y EXCEPT !.exp = e]
  ELSE IF y.exp - 1 > e
  THEN [sign |-> 1, exp |-> e, hi |-> (Limb \div 8) - 1, lo |-> Limb - 1]
  ELSE [sign |-> 1, exp |-> e, hi |-> Limb \div 16, lo |-> 0]

\* One step of Newton's iteration on the root g of x, twice over.
Newton(x, g) == DAdd(g, DDiv(x, g))

\* The root of x = m * 2^(2e + 52) from the 42 bits s of a first value.
Rooted(x, mh, ml, e, s) ==
  SqrtNear(FirstRoot(Newton(x, [sign |-> 1, exp |-> e, hi |-> s \div 8,
                            lo |-> (s % 8) * 2^25]), e),
           mh, ml)

\* 28 bits s of the root from the leading bits of m, and 14 more.
Longer(mh, ml, s) ==
  s * Radix + (IF ((4 * mh - s * s) * Radix + (ml \div Radix)) \div (2 * s)
                    < Radix
               THEN ((4 * mh - s * s) * Radix + (ml \div Radix)) \div (2 * s)
               ELSE Radix - 1)

\* Math.sqrt(x), x >= 0.  x is m * 2^e with e even and 2^52 <= m < 2^54; the
\* root's significand is the integer nearest to the square root of m * 2^52,
\* found from a first value: 28 bits from the leading bits of m, 14 more,
\* then one step of Newton's iteration.
EvenRoot(x, mh, ml, e) == Rooted(x, mh, ml, e, Longer(mh, ml, Root28(4 * mh)))
DSqrt(x) ==
  IF x.sign = 0 THEN Zero
  ELSE EvenRoot(x,
                IF x.exp % 2 = 1 THEN 2 * x.hi + ((2 * x.lo) \div Limb)
                ELSE x.hi,
                IF x.exp % 2 = 1 THEN (2 * x.lo) % Limb ELSE x.lo,
                ((x.exp - (x.exp % 2)) \div 2) - 26)

One == Dbl(1)

\* The root of the sum of the squares of n1 and n2, times max.
Norm(n1, n2, max) == DMul(DSqrt(DAdd(DMul(n1, n1), DMul(n2, n2))), max)

\* Math.hypot(x, y) as V8 computes it: the absolute values of the arguments
\* are divided by the larger of them, the squares of the quotients are added
\* (with Kahan's compensation, which is 0 for two arguments) and the root of
\* the sum is multiplied by the larger.
HypotOf(a, b, max) ==
  IF max.sign = 0 THEN Zero ELSE Norm(DDiv(a, max), DDiv(b, max), max)
Hypot(x, y) == HypotOf(DAbs(x), DAbs(y), DMax(DAbs(x), DAbs(y)))

\* The decimal literal n / d of the source: the double nearest to it.
Decimal(n, d) == DDiv(Dbl(n), Dbl(d))

(* --------------------------- program constants ------------------------ *)

\* canvas.width / canvas.height of the page's <canvas id="game">; the page
\* is not part of the source, and 960 x 540 is taken for its canvas.
WIDTH == Dbl(960)
HEIGHT == Dbl(540)

PLAYER_SPEED == 280
\* 1.0 s
INVULN_TIME == One
\* 1.25 s
COMBO_WINDOW == Scaled(Dbl(5), 0 - 2)
COMBO_BONUS_STEP == 2
COMBO_BONUS_CAP == 14

\* The longest dt tick passes to update: 0.05 s.
MAX_DT == Decimal(1, 20)

\* The top band of the canvas reserved for the HUD (the literal 40).
HUD_BAND == Dbl(40)

DIFFICULTIES ==
  << [name |-> "Easy",   lives |-> 5, time |-> 60, hazards |-> 3,
      items |-> 8,  hazardSpeed |-> <<120, 170>>],
     [name |-> "Normal", lives |-> 4, time |-> 50, hazards |-> 4,
      items |-> 10, hazardSpeed |-> <<150, 210>>],
     [name |-> "Hard",   lives |-> 3, time |-> 40, hazards |-> 10,
      items |-> 12, hazardSpeed |-> <<190, 260>>] >>

\* DIFFICULTIES[this.difficultyIndex], with the code's 0-based index.
Diff(idx) == DIFFICULTIES[idx + 1]

(* ------------------------------ helpers ------------------------------- *)

\* Math.max and Math.min of integers.
Max(a, b) == IF a >= b THEN a ELSE b
Min(a, b) == IF a <= b THEN a ELSE b

\* A faulty clamp, which forgets the lower limit.
clampAbove(value, min, max) == DMin(max, value)

clamp(value, min, max) == DMax(min, DMin(max, value))

Abs(a) == IF a < 0 THEN -a ELSE a

Vec2(x, y) == [x |-> x, y |-> y]

\* Vec2.distanceTo
distanceTo(a, b) == Hypot(DSub(a.x, b.x), DSub(a.y, b.y))

\* The longer of the two sides |a.x - b.x| and |a.y - b.y|.
Side(a, b) == DMax(DAbs(DSub(a.x, b.x)), DAbs(DSub(a.y, b.y)))

\* d < r for the distance d of two places whose longer side is side, and
\* r > 0.  Math.hypot's value is the longer side times the root of a sum that
\* lies between 1 and 2: it is not below that side and it is below twice
\* that side, so that the distance is computed only where the longer side
\* lies between r / 2 and r.
Below(side, r, d) ==
  IF DLeq(r, side) THEN FALSE
  ELSE IF DLeq(Scaled(side, 1), r) THEN TRUE
  ELSE DLess(d, r)

\* d <= r, in the same way.
NotAbove(side, r, d) ==
  IF DLess(r, side) THEN FALSE
  ELSE IF DLeq(Scaled(side, 1), r) THEN TRUE
  ELSE DLeq(d, r)

\* a.distanceTo(b) < r and a.distanceTo(b) <= r, for r > 0.
Closer(a, b, r) == Below(Side(a, b), r, distanceTo(a, b))
Within(a, b, r) == NotAbove(Side(a, b), r, distanceTo(a, b))

\* new Vec2(WIDTH / 2, HEIGHT / 2)
Centre == Vec2(Scaled(WIDTH, 0 - 1), Scaled(HEIGHT, 0 - 1))

\* The place (x, y), in whole pixels.
P(x, y) == Vec2(Dbl(x), Dbl(y))

(* ------------------------ the persisted high score -------------------- *)

\* A string is a sequence of one-character strings.  A stored value is a
\* record: present says whether the key exists, text is its string.
Null == [present |-> FALSE, text |-> <<>>]
Text(s) == [present |-> TRUE, text |-> s]

\* A JavaScript number whose value is an integer, and the numbers that are
\* not finite.  A double may lie far beyond the integers TLC computes with,
\* so that an integer is written as its sign and its decimal digits, the
\* most significant first (-0 has the sign and the digit 0).
NaN == [is |-> "NaN", neg |-> FALSE, digits |-> <<>>]
Infinity == [is |-> "Infinity", neg |-> FALSE, digits |-> <<>>]
Integer(neg, digits) == [is |-> "finite", neg |-> neg, digits |-> digits]

\* The decimal digits of an integer n >= 0.
RECURSIVE NatDigits(_)
NatDigits(n) ==
  IF n < 10 THEN <<n>> ELSE Append(NatDigits(n \div 10), n % 10)

\* The number whose value is the integer n.
Num(n) == Integer(n < 0, NatDigits(Abs(n)))

\* Number.isFinite(v)
isFinite(v) == v.is = "finite"

\* a > b for finite numbers a and b.
Greater(a, b) ==
  LET above(x, y) ==
        \/ Len(x) > Len(y)
        \/ /\ Len(x) = Len(y)
           /\ \E i \in 1..Len(x) :
                x[i] > y[i] /\ \A j \in 1..(i - 1) : x[j] = y[j]
  IN IF a.digits = <<0>> /\ b.digits = <<0>> THEN FALSE
     ELSE IF a.neg # b.neg THEN b.neg
     ELSE IF a.neg THEN above(b.digits, a.digits)
     ELSE above(a.digits, b.digits)

Digits == <<"0", "1", "2", "3", "4", "5", "6", "7", "8", "9">>

IsDigit(c) == \E d \in 0..9 : Digits[d + 1] = c

DigitValue(c) == CHOOSE d \in 0..9 : Digits[d + 1] = c

\* String(n) for an integer n.
RECURSIVE NatString(_)
NatString(n) ==
  IF n < 10 THEN <<Digits[n + 1]>>
  ELSE NatString(n \div 10) \o <<Digits[(n % 10) + 1]>>

String(n) == IF n < 0 THEN <<"-">> \o NatString(-n) ELSE NatString(n)

\* The double nearest to the integer whose decimal digits are d (no leading
\* zero), ties to the even significand: the integer itself below 2^53; else
\* its 53 leading bits, rounded by the bits that follow; Infinity from 2^1024
\* on.
ToDouble(d) ==
  LET width == Len(d) + 1
      halved(x) ==
        SubSeq([i \in 1..Len(x) |->
                  (x[i] \div 2) + (IF i > 1 /\ x[i - 1] % 2 = 1 THEN 5 ELSE 0)],
               1, Len(x))
      doubled(x, bit) ==
        SubSeq([i \in 1..Len(x) |->
                  ((2 * x[i]) % 10)
                  + (IF i = Len(x) THEN bit
                     ELSE IF x[i + 1] >= 5 THEN 1 ELSE 0)],
               1, Len(x))
      \* n halvings of st.x, the bits that fall off appended to st.bits
      RECURSIVE shift(_, _)
      shift(st, n) ==
        IF n = 0 THEN st
        ELSE IF n = 1
        THEN [x |-> halved(st.x),
              bits |-> Append(st.bits, st.x[Len(st.x)] % 2)]
        ELSE Only({ shift(half, n - n \div 2) :
                      half \in { shift(st, n \div 2) } })
      low == shift([x |-> d, bits |-> <<>>], 4 * Len(d)).bits
      size == CHOOSE k \in 1..Len(low) :
                low[k] = 1 /\ \A j \in (k + 1)..Len(low) : low[j] = 0
      bit(i) == low[size + 1 - i]
      up == /\ bit(54) = 1
            /\ bit(53) = 1 \/ \E j \in 55..size : bit(j) = 1
      zeros == { i \in 1..53 : bit(i) = 0 }
      last == CHOOSE i \in zeros : \A j \in zeros : j <= i
      carried == up /\ zeros = {}
      \* the bits of the double's value, the most significant first
      rounded(i) ==
        IF i > 53 THEN 0
        ELSE IF ~up THEN bit(i)
        ELSE IF carried THEN 0
        ELSE IF i < last THEN bit(i)
        ELSE IF i = last THEN 1 ELSE 0
      length == IF carried THEN size + 1 ELSE size
      value(i) == IF carried THEN (IF i = 1 THEN 1 ELSE 0) ELSE rounded(i)
      RECURSIVE horner(_, _, _)
      horner(x, lo, hi) ==
        IF lo > hi THEN x
        ELSE IF lo = hi THEN doubled(x, value(lo))
        ELSE Only({ horner(half, (lo + hi) \div 2 + 1, hi) :
                      half \in { horner(x, lo, (lo + hi) \div 2) } })
      digits == horner([i \in 1..width |-> 0], 1, length)
      lead == CHOOSE k \in 0..(width - 1) :
                digits[k + 1] # 0 /\ \A i \in 1..k : digits[i] = 0
  IN IF Len(d) <= 15 THEN Integer(FALSE, d)
     ELSE IF Len(d) > 309 THEN Infinity
     ELSE IF size <= 53 THEN Integer(FALSE, d)
     ELSE IF length > 1024 THEN Infinity
     ELSE Integer(FALSE, SubSeq(digits, lead + 1, width))

\* The characters that Number.parseInt skips at the start of a string: white
\* space and line terminators.  A text is a sequence of characters; a
\* character that a TLA+ string cannot hold is written as its code point.
WhiteSpace ==
  {"\t", "\n", "\f", "\r", " ", "U+0009", "U+000A", "U+000B", "U+000C",
   "U+000D", "U+0020", "U+00A0", "U+1680", "U+2000", "U+2001", "U+2002",
   "U+2003", "U+2004", "U+2005", "U+2006", "U+2007", "U+2008", "U+2009",
   "U+200A", "U+2028", "U+2029", "U+202F", "U+205F", "U+3000", "U+FEFF"}

\* Number.parseInt(s, 10): leading white space, an optional sign, then the
\* longest run of digits, whose value becomes a double; NaN if there is no
\* digit.
ParseInt(s) ==
  LET n == Len(s)
      blank == CHOOSE k \in 0..n :
                 /\ \A i \in 1..k : s[i] \in WhiteSpace
                 /\ k = n \/ s[k + 1] \notin WhiteSpace
      signed == blank < n /\ s[blank + 1] \in {"-", "+"}
      neg == blank < n /\ s[blank + 1] = "-"
      from == IF signed THEN blank + 1 ELSE blank
      run == CHOOSE k \in 0..(n - from) :
               /\ \A i \in 1..k : IsDigit(s[from + i])
               /\ from + k = n \/ ~IsDigit(s[from + k + 1])
      zeros == CHOOSE k \in 0..(run - 1) :
                 /\ \A i \in 1..k : s[from + i] = "0"
                 /\ k = run - 1 \/ s[from + k + 1] # "0"
      d == [i \in 1..(run - zeros) |-> DigitValue(s[from + zeros + i])]
      v == ToDouble(SubSeq(d, 1, run - zeros))
  IN IF run = 0 THEN NaN ELSE [v EXCEPT !.neg = neg]

\* Game.loadHighScore: held is the value under HIGHSCORE_KEY, throws says
\* whether localStorage.getItem throws.
loadHighScore(held, throws) ==
  IF throws THEN Num(0)
  ELSE LET text == IF ~held.present \/ held.text = <<>>
                   THEN <<"0">> ELSE held.text
           v == ParseInt(text)
       IN IF isFinite(v) THEN v ELSE Num(0)

\* Game.saveHighScore: the value held after the call (held before it); throws says whether
\* localStorage.setItem throws.
saveHighScore(held, value, throws) ==
  IF throws THEN held ELSE Text(String(value))

(* ------------------------------ entities ------------------------------ *)

\* An image file the page asks for: one that does not load, and one that
\* loads with the given width in pixels.  A canvas is written the same way.
NoImage == [loaded |-> FALSE, width |-> 0]
Image(w) == [loaded |-> TRUE, width |-> w]

SPRITE_TILE == 16
PLAYER_SPRITE_SCALE == 3
ITEM_SPRITE_SCALE == 3

\* scaleCanvas(src, scale): the canvas's width.
scaleCanvas(src, scale) == Image(src.width * scale)

\* A candidate file of the mouse sheet: one that does not load (loadImage
\* rejects and the catch goes on to the next), and one that loads and in
\* which sliceSheet finds n tiles that are not blank.
NoSheet == [loaded |-> FALSE, tiles |-> 0]
Sheet(n) == [loaded |-> TRUE, tiles |-> n]

\* The loop of loadAssets over the candidates, from the i-th on: the scaled
\* frames of the first that loads and has a frame; one that loads without a
\* frame is passed over (if (frames.length === 0) continue).
RECURSIVE sheetFrames(_, _)
sheetFrames(sheets, i) ==
  IF i > Len(sheets) THEN <<>>
  ELSE IF ~sheets[i].loaded \/ sheets[i].tiles = 0
       THEN sheetFrames(sheets, i + 1)
       ELSE [k \in 1..sheets[i].tiles |->
               scaleCanvas(Image(SPRITE_TILE), PLAYER_SPRITE_SCALE)]

\* loadAssets(): the fields the game reads.  sheets are the candidate files
\* of the mouse sheet in the order the code tries them, cheeseImg the cheese
\* image.
loadAssets(sheets, cheeseImg) ==
  [mouseFrames |-> sheetFrames(sheets, 1),
   cheese |-> IF cheeseImg.loaded THEN scaleCanvas(cheeseImg, ITEM_SPRITE_SCALE)
              ELSE NoImage]

\* The image files of a checkout without sprite_mouse/ (none of the ten
\* candidates loads), the files the design names (a sheet of 16 x 16 tiles,
\* four of them here, and a cheese image of one tile), and those files with a
\* sheet before them that does not load and one that loads blank.
NoSprites == << [i \in 1..10 |-> NoSheet], NoImage >>
Sprites == << << Sheet(4) >>, Image(SPRITE_TILE) >>
BlankSheet == << << NoSheet, Sheet(0), Sheet(4) >>, Image(SPRITE_TILE) >>

\* Player.radius, Item.radius and newItemRadius when no sprite was loaded
\* (assets.mouseFrames empty, assets.cheese null), and Hazard.size.
PLAYER_RADIUS == Dbl(18)
ITEM_RADIUS == Dbl(10)
HAZARD_SIZE == Dbl(24)

\* Hazard.nudgeAwayFrom's displacement.
NUDGE == Dbl(18)

\* width / 2 for the width of a canvas.
HalfWidth(canvas) == Scaled(Dbl(canvas.width), 0 - 1)

\* new Player(pos, frames, framesFlipped): the fields update and
\* handleCollisions read.
NewPlayer(pos, frames) ==
  [pos |-> pos,
   radius |-> IF Len(frames) > 0 THEN HalfWidth(frames[1]) ELSE PLAYER_RADIUS,
   hitCooldown |-> Zero]

\* new Item(pos, cheese).  born records the run that created the object: it
\* stands for the object's identity across runs.
NewItem(pos, sprite, born) ==
  [pos |-> pos,
   radius |-> IF sprite.loaded THEN HalfWidth(sprite) ELSE ITEM_RADIUS,
   born |-> born]

\* new Hazard(pos, speedRange), with the velocity randomVelocity returned.
NewHazard(pos, vel, born) ==
  [pos |-> pos, size |-> HAZARD_SIZE, vel |-> vel, born |-> born]

(* --------------------------- Math.random draws ------------------------- *)

\* The n-th element of a stream that repeats the sequence s for ever.
Nth(s, n) == s[((n - 1) % Len(s)) + 1]

\* The value k / 1024 of Math.random(), 0 <= k < 1024.
U(k) == Scaled(Dbl(k), 0 - 10)

\* rand(min, max) for the value u of Math.random().
rand(min, max, u) == DAdd(min, DMul(u, DSub(max, min)))

\* rand(lo, WIDTH - right) and rand(top, HEIGHT - bottom) for the pair d of
\* values of Math.random(), each in 1024ths.
Place(d, lo, right, top, bottom) ==
  Vec2(rand(Dbl(lo), DSub(WIDTH, Dbl(right)), U(d[1])),
       rand(Dbl(top), DSub(HEIGHT, Dbl(bottom)), U(d[2])))

\* The pairs of values of Math.random(), in 1024ths, from which spawnHazards
\* draws the places of a run; a stream is read from its start by every call
\* and round again when it is used up.  <<k, l>> is the place
\* (60 + 840 k / 1024, 100 + 380 l / 1024):
\*   spread  a place 180 px to the left of the centre, the centre (rejected:
\*           the player is there), a place 30 px below the first (rejected:
\*           too near to it) and nine places along the top and the bottom
\*   calm    ten places in a row along the top
\*   late    the centre (rejected) and a place in the top left corner
\*   pincer  the centre (rejected) and the places 150 px to its left and right
\*   wall    a place 270 px to the left of the centre and two to the right
\*   stuck   the centre (rejected) and one other place, again and again
HazardDraws(stream) ==
  IF stream = "spread"
  THEN << <<293, 458>>, <<512, 458>>, <<293, 539>>, <<73, 54>>, <<951, 916>>,
          <<219, 54>>, <<366, 54>>, <<658, 54>>, <<805, 54>>, <<951, 54>>,
          <<73, 916>>, <<219, 916>> >>
  ELSE IF stream = "calm"
  THEN << <<49, 54>>, <<146, 54>>, <<244, 54>>, <<341, 54>>, <<439, 54>>,
          <<536, 54>>, <<634, 54>>, <<731, 54>>, <<829, 54>>, <<926, 54>> >>
  ELSE IF stream = "late"
  THEN << <<512, 458>>, <<50, 56>> >>
  ELSE IF stream = "pincer"
  THEN << <<512, 458>>, <<329, 458>>, <<695, 458>> >>
  ELSE IF stream = "wall"
  THEN << <<183, 458>>, <<902, 135>>, <<902, 808>> >>
  ELSE << <<512, 458>>, <<293, 135>> >>

\* The triples of values of Math.random(), in 1024ths, from which
\* Hazard.randomVelocity draws vx, vy and the speed, one hazard after
\* another.  <<k, l, m>> is the direction (k / 512 - 1, l / 512 - 1) and the
\* speed min + (max - min) m / 1024:
\*   spread  to the right at the lowest speed, a direction too short to keep
\*           (drawn again), down, up and to the left, to the left, down and to
\*           the right, and up
\*   late    up and a little to the left, fast
\*   pincer  to the right and to the left, at the lowest speed
\*   wall    to the left and to the right, at the lowest speed
\*   the others: to the left at the middle speed, to the right at the lowest
VelocityDraws(stream) ==
  IF stream = "spread"
  THEN << <<1023, 512, 0>>, <<563, 563, 512>>, <<512, 1023, 512>>,
          <<205, 102, 0>>, <<0, 512, 512>>, <<922, 819, 0>>, <<512, 0, 0>> >>
  ELSE IF stream = "late"
  THEN << <<457, 144, 916>> >>
  ELSE IF stream = "pincer"
  THEN << <<1023, 512, 0>>, <<0, 512, 0>> >>
  ELSE IF stream = "wall"
  THEN << <<0, 512, 0>>, <<1023, 512, 0>> >>
  ELSE << <<0, 512, 512>>, <<1023, 512, 0>> >>

\* The pairs of values of Math.random(), in 1024ths, from which spawnItems
\* draws the places of a batch.  <<k, l>> is the place
\* (40 + 880 k / 1024, 80 + 420 l / 1024):
\*   row    six pairs of places to the right of the centre, one of a pair
\*          about 27 px above the line the player walks along and the other
\*          about 27 px below it, and six places far below that line
\*   pair   the first pair of row and ten places far below the line
\*   stuck  a place 30 px below the centre (rejected while the player is at
\*          the centre) and a place 98 px to its right, again and again
ItemDraws(stream) ==
  IF stream = "row"
  THEN << <<624, 396>>, <<638, 530>>, <<698, 397>>, <<716, 529>>,
          <<768, 397>>, <<785, 529>>, <<838, 397>>, <<855, 529>>,
          <<908, 397>>, <<925, 529>>, <<977, 397>>, <<995, 529>>,
          <<70, 878>>, <<163, 878>>, <<256, 878>>, <<349, 878>>,
          <<442, 878>>, <<535, 878>> >>
  ELSE IF stream = "pair"
  THEN << <<624, 396>>, <<638, 530>>, <<70, 878>>, <<140, 878>>,
          <<209, 878>>, <<279, 878>>, <<349, 878>>, <<419, 878>>,
          <<489, 878>>, <<559, 878>>, <<628, 878>>, <<698, 878>> >>
  ELSE << <<512, 536>>, <<626, 463>> >>

(* ------------------------------- Hazard -------------------------------- *)

\* The literal 0.1 of randomVelocity.
SHORT == Decimal(1, 10)

\* new Vec2((vx / len) * speed, (vy / len) * speed)
Along(vx, vy, len, speed) ==
  Vec2(DMul(DDiv(vx, len), speed), DMul(DDiv(vy, len), speed))

\* The vector (vx, vy) that randomVelocity draws, with its squared length:
\* const len2 = vx * vx + vy * vy
Drawn(vx, vy) ==
  [x |-> vx, y |-> vy, len2 |-> DAdd(DMul(vx, vx), DMul(vy, vy))]

\* Hazard.randomVelocity: the first draw of the stream, from its n-th on,
\* whose squared length exceeds 0.1, scaled to the drawn speed.  used is the
\* number of the draw taken.  Like the while (true) of the code the
\* redrawing has no cap: it ends with the first draw that is long enough,
\* and on a stream without one neither the code nor this definition returns.
RECURSIVE randomVelocity(_, _, _)
randomVelocity(speedRange, draws, n) ==
  Only({ IF DLeq(v.len2, SHORT)
         THEN randomVelocity(speedRange, draws, n + 1)
         ELSE [vel |-> Along(v.x, v.y, DSqrt(v.len2),
                             rand(Dbl(speedRange[1]), Dbl(speedRange[2]),
                                  U(Nth(draws, n)[3]))),
               used |-> n] :
           v \in { Drawn(rand(DNeg(One), One, U(Nth(draws, n)[1])),
                         rand(DNeg(One), One, U(Nth(draws, n)[2]))) } })

\* A faulty bounce, which halves the speed along the axis.
ReflectedDamped(v, bounce) == IF bounce THEN Scaled(DNeg(v), 0 - 1) ELSE v

\* if (...) this.vel.x *= -1, for either axis.
Reflected(v, bounce) == IF bounce THEN DNeg(v) ELSE v

\* The rest of Hazard.update once the hazard has moved to (x, y) and the
\* two tests have been made.
Bounced(h, x, y, bounceX, bounceY) ==
  [h EXCEPT
     !.vel = Vec2(Reflected(h.vel.x, bounceX), Reflected(h.vel.y, bounceY)),
     !.pos = IF bounceX \/ bounceY
             THEN Vec2(clamp(x, h.size, DSub(WIDTH, h.size)),
                       clamp(y, DAdd(h.size, HUD_BAND), DSub(HEIGHT, h.size)))
             ELSE Vec2(x, y)]

\* The two tests of Hazard.update on the hazard's new place (x, y).
MovedTo(h, x, y) ==
  Bounced(h, x, y,
          DLess(x, h.size) \/ DLess(DSub(WIDTH, h.size), x),
          DLess(y, DAdd(h.size, HUD_BAND)) \/ DLess(DSub(HEIGHT, h.size), y))

\* Hazard.update(dt).
HazardUpdate(h, dt) ==
  MovedTo(h, DAdd(h.pos.x, DMul(h.vel.x, dt)), DAdd(h.pos.y, DMul(h.vel.y, dt)))

\* this.pos.x += (dx / len) * 18; this.pos.y += (dy / len) * 18
Pushed(h, dx, dy, len) ==
  [h EXCEPT !.pos = Vec2(DAdd(h.pos.x, DMul(DDiv(dx, len), NUDGE)),
                         DAdd(h.pos.y, DMul(DDiv(dy, len), NUDGE)))]

\* Math.hypot(dx, dy) || 1: a direction of (0, 0) has length 0, for which
\* the code divides by 1 and moves the hazard by 0.
OrOne(len) == IF len = Zero THEN One ELSE len

\* Hazard.nudgeAwayFrom once dx and dy are settled.
nudgeAlong(h, dx, dy) == Pushed(h, dx, dy, OrOne(Hypot(dx, dy)))

\* if (dx === 0 && dy === 0) { dx = rand(-1, 1); dy = rand(-1, 1); }
nudgeFrom(h, dx, dy, draw) ==
  nudgeAlong(h,
             IF dx = Zero /\ dy = Zero
             THEN rand(DNeg(One), One, U(draw[1])) ELSE dx,
             IF dx = Zero /\ dy = Zero
             THEN rand(DNeg(One), One, U(draw[2])) ELSE dy)

\* Hazard.nudgeAwayFrom(point); draw is the pair of values of Math.random()
\* (in 1024ths) that rand(-1, 1) turns into a direction when the hazard sits
\* on the point.
nudgeAwayFrom(h, point, draw) ==
  nudgeFrom(h, DSub(h.pos.x, point.x), DSub(h.pos.y, point.y), draw)

(* ------------------------------- Player -------------------------------- *)

Has(keys, a, b) == a \in keys \/ b \in keys

\* this.x /= length; this.y /= length, if length > 0.
Divided(v, length) ==
  IF DLess(Zero, length) THEN Vec2(DDiv(v.x, length), DDiv(v.y, length))
  ELSE v

\* Vec2.normalize()
normalize(v) == Divided(v, Hypot(v.x, v.y))

\* direction.x * PLAYER_SPEED * dt
Step(d, dt) == DMul(DMul(d, Dbl(PLAYER_SPEED)), dt)

\* Player.update(keys, dt) from the movement on: the movement, the
\* clamping, the cooldown's decrement.
Walked(p, direction, dt) ==
  [p EXCEPT
     !.pos = Vec2(clamp(DAdd(p.pos.x, Step(direction.x, dt)),
                        p.radius, DSub(WIDTH, p.radius)),
                  clamp(DAdd(p.pos.y, Step(direction.y, dt)),
                        DAdd(p.radius, HUD_BAND), DSub(HEIGHT, p.radius))),
     !.hitCooldown = IF DLess(Zero, p.hitCooldown)
                     THEN DMax(Zero, DSub(p.hitCooldown, dt))
                     ELSE p.hitCooldown]

\* The direction the held keys give, before it is normalized.
Heading(keys) ==
  Vec2(Dbl((IF Has(keys, "ArrowRight", "d") THEN 1 ELSE 0)
           - (IF Has(keys, "ArrowLeft", "a") THEN 1 ELSE 0)),
       Dbl((IF Has(keys, "ArrowDown", "s") THEN 1 ELSE 0)
           - (IF Has(keys, "ArrowUp", "w") THEN 1 ELSE 0)))

\* Player.update(keys, dt).  normalize leaves a direction of length 0 as it
\* is, as does the test direction.len2() > 0 that guards its call.
PlayerUpdate(p, keys, dt) == Walked(p, normalize(Heading(keys)), dt)

\* A faulty canTakeHit, which forgets the cooldown.
canTakeHitUngated(p) == TRUE

\* Player.canTakeHit()
canTakeHit(p) == DLeq(p.hitCooldown, Zero)

\* Player.markHit()
markHit(p) == [p EXCEPT !.hitCooldown = INVULN_TIME]

(* ------------------------------- spawner ------------------------------- *)

ITEM_ATTEMPTS == 20
HAZARD_ATTEMPTS == 25

\* A while loop whose body runs at most n times is n applications of its
\* guarded body; the applications are split in halves to keep the
\* evaluation shallow.

\* The body of the loop of Game.spawnItems(count) once pos is drawn: st
\* holds this.items and the attempts made so far, c the call's arguments.
itemAttemptAt(st, c, pos, newItemRadius) ==
  [items |->
     IF /\ ~Closer(pos, c.playerPos, Dbl(80))
        /\ ~\E i \in 1..Len(st.items) :
              Closer(pos, st.items[i].pos,
                     DAdd(DAdd(st.items[i].radius, newItemRadius), Dbl(8)))
        /\ ~\E i \in 1..Len(c.hazards) :
              Closer(pos, c.hazards[i].pos,
                     DAdd(DAdd(c.hazards[i].size, newItemRadius), Dbl(12)))
     THEN Append(st.items, NewItem(pos, c.cheese, c.born))
     ELSE st.items,
   attempts |-> st.attempts + 1]

\* The guarded body of the loop of Game.spawnItems(count).
itemAttempt(st, c) ==
  IF ~(Len(st.items) < c.count /\ st.attempts < c.count * ITEM_ATTEMPTS)
  THEN st
  ELSE itemAttemptAt(st, c,
                     Place(Nth(c.draws, st.attempts + 1), 40, 40, 80, 40),
                     IF c.cheese.loaded THEN HalfWidth(c.cheese)
                     ELSE ITEM_RADIUS)

RECURSIVE itemAttempts(_, _, _)
itemAttempts(st, c, n) ==
  IF n <= 0 THEN st
  ELSE IF n = 1 THEN itemAttempt(st, c)
  ELSE LET half == itemAttempts(st, c, n \div 2)
       IN IF half.attempts = st.attempts THEN half
          ELSE itemAttempts(half, c, n - n \div 2)

\* Game.spawnItems(count) on the item stream named stream, list being
\* this.items and obstacles this.hazards: the list and the attempts made.
spawnItems(list, count, playerPos, obstacles, cheese, stream, born) ==
  itemAttempts([items |-> list, attempts |-> 0],
               [count |-> count, playerPos |-> playerPos,
                hazards |-> obstacles, cheese |-> cheese,
                draws |-> ItemDraws(stream), born |-> born],
               count * ITEM_ATTEMPTS)

\* this.hazards.push(new Hazard(pos, speedRange)), v being the velocity
\* randomVelocity returned and the number of the draw it took.
hazardPushed(st, c, pos, v) ==
  [hazards |-> Append(st.hazards, NewHazard(pos, v.vel, c.born)),
   attempts |-> st.attempts + 1,
   vn |-> v.used + 1]

\* The two tests that reject a place for a hazard.
hazardRejected(st, c, pos) ==
  \/ Closer(pos, c.playerPos, Dbl(120))
  \/ \E i \in 1..Len(st.hazards) : Closer(pos, st.hazards[i].pos, Dbl(60))

\* A faulty loop body of Game.spawnHazards, which counts an attempt only when
\* it places a hazard.
hazardAttemptAtUncounted(st, c, pos) ==
  IF hazardRejected(st, c, pos) THEN st
  ELSE hazardPushed(st, c, pos, randomVelocity(c.speedRange, c.vdraws, st.vn))

\* The body of the loop of Game.spawnHazards(count, speedRange) once pos is
\* drawn; vn is the number of the next velocity draw.
hazardAttemptAt(st, c, pos) ==
  IF hazardRejected(st, c, pos) THEN [st EXCEPT !.attempts = st.attempts + 1]
  ELSE hazardPushed(st, c, pos, randomVelocity(c.speedRange, c.vdraws, st.vn))

\* The guarded body of the loop of Game.spawnHazards(count, speedRange).
hazardAttempt(st, c) ==
  IF ~(Len(st.hazards) < c.count /\ st.attempts < c.count * HAZARD_ATTEMPTS)
  THEN st
  ELSE hazardAttemptAt(st, c,
                       Place(Nth(c.draws, st.attempts + 1), 60, 60, 100, 60))

RECURSIVE hazardAttempts(_, _, _)
hazardAttempts(st, c, n) ==
  IF n <= 0 THEN st
  ELSE IF n = 1 THEN hazardAttempt(st, c)
  ELSE LET half == hazardAttempts(st, c, n \div 2)
       IN IF half.attempts = st.attempts THEN half
          ELSE hazardAttempts(half, c, n - n \div 2)

\* Game.spawnHazards(count, speedRange) on the hazard stream named stream,
\* list being this.hazards.
spawnHazards(list, count, speedRange, playerPos, stream, born) ==
  hazardAttempts([hazards |-> list, attempts |-> 0, vn |-> 1],
                 [count |-> count, speedRange |-> speedRange,
                  playerPos |-> playerPos, draws |-> HazardDraws(stream),
                  vdraws |-> VelocityDraws(stream), born |-> born],
                 count * HAZARD_ATTEMPTS)

(* -------------------------------- state -------------------------------- *)

VARIABLES
  assets,           \* this.assets: [mouseFrames, cheese], as loadAssets left it
  state,            \* this.state: "menu", "playing", "paused", "game_over"
  difficultyIndex,  \* this.difficultyIndex, 0-based
  score, lives, timeLeft,
  combo, comboTimer,
  player,           \* this.player: [pos, radius, hitCooldown]
  items, hazards,   \* this.items, this.hazards (lists, in the code's order)
  particles,        \* this.particles: the remaining life of each
  floaters,         \* this.floaters: the remaining life of each
  shakeTimer,
  highScore, newHighScore,
  stored,           \* localStorage's value under HIGHSCORE_KEY
  \* What follows records history; the program holds none of it.
  obs,              \* what the last handler did (see Quiet)
  elapsed,          \* Playing-state dt since the run started, in ms
  sinceHit,         \* the same since the run's last hit, None if none
  sinceCollect,     \* the same since the run's last collection
  gameOvers         \* enterGameOver calls since the last startGame/resetRun

vars == << assets, state, difficultyIndex, score, lives, timeLeft, combo, comboTimer,
           player, items, hazards, particles, floaters, shakeTimer,
           highScore, newHighScore, stored, obs, elapsed, sinceHit,
           sinceCollect, gameOvers >>

\* "No hit (collection, spawn call) yet".
None == 0 - 1

\* The Game object and the history, as one record.
Self ==
  [assets |-> assets, state |-> state, difficultyIndex |-> difficultyIndex, score |-> score,
   lives |-> lives, timeLeft |-> timeLeft, combo |-> combo,
   comboTimer |-> comboTimer, player |-> player, items |-> items,
   hazards |-> hazards, particles |-> particles, floaters |-> floaters,
   shakeTimer |-> shakeTimer, highScore |-> highScore,
   newHighScore |-> newHighScore, stored |-> stored, obs |-> obs,
   elapsed |-> elapsed, sinceHit |-> sinceHit, sinceCollect |-> sinceCollect,
   gameOvers |-> gameOvers]

Becomes(g) ==
  /\ assets' = g.assets
  /\ state' = g.state
  /\ difficultyIndex' = g.difficultyIndex
  /\ score' = g.score
  /\ lives' = g.lives
  /\ timeLeft' = g.timeLeft
  /\ combo' = g.combo
  /\ comboTimer' = g.comboTimer
  /\ player' = g.player
  /\ items' = g.items
  /\ hazards' = g.hazards
  /\ particles' = g.particles
  /\ floaters' = g.floaters
  /\ shakeTimer' = g.shakeTimer
  /\ highScore' = g.highScore
  /\ newHighScore' = g.newHighScore
  /\ stored' = g.stored
  /\ obs' = g.obs
  /\ elapsed' = g.elapsed
  /\ sinceHit' = g.sinceHit
  /\ sinceCollect' = g.sinceCollect
  /\ gameOvers' = g.gameOvers

\* The record of a handler that has done nothing yet.
\*   op            "new" (the constructor), "update" or "key"
\*   from          this.state when the handler was called
\*   key           the key of the keydown event, where the specification
\*                 keeps it ("" where it does not)
\*   dropped       what startGame or resetRun discarded: the number of
\*                 items and hazards, the number of particles and floating
\*                 texts, and the player's hitCooldown
\*   started       startGame ran
\*   reset         resetRun ran
\*   hazardAttempts, itemAttempts   the attempts of startGame's / resetRun's
\*                 spawnHazards and of the last spawnItems call, None if none
\*   awards        per item collected, in order: the combo count after it and
\*                 the points it added
\*   collectGap    at the frame's first collection: Playing-state dt (ms)
\*                 since the run's previous collection, this frame's included
\*   hit           a hazard hit was applied
\*   hitCooldown   the cooldown the hit check saw (after Player.update)
\*   hitGap        at the hit: Playing-state dt (ms) since the run's previous
\*                 hit, this frame's included
\*   atCheck       at the hit: this.hazards as the hazard loop found it
\*   nudged        at the hit: the index of the hazard nudged, else 0
\*   gameOver      enterGameOver ran
\*   calls         in a specification of single method calls: the calls made
\*   dt            in such a specification: the dt of the call
\*   saves         calls of Game.saveHighScore
\*   loads         calls of Game.loadHighScore
\*   threw         localStorage threw in this handler (and was caught)
Quiet(op) ==
  [op |-> op, from |-> "menu", key |-> "",
   dropped |-> [entities |-> 0, effects |-> 0, cooldown |-> Zero],
   started |-> FALSE, reset |-> FALSE, hazardAttempts |-> None,
   itemAttempts |-> None, awards |-> <<>>, collectGap |-> None,
   hit |-> FALSE, hitCooldown |-> Zero, hitGap |-> None, atCheck |-> <<>>,
   nudged |-> 0, gameOver |-> FALSE,
   saves |-> 0, loads |-> 0, threw |-> FALSE, calls |-> 0, dt |-> Zero]

\* An entity that outlives the start of a new run is marked as the previous
\* run's.
Retire(list) == [i \in 1..Len(list) |-> [list[i] EXCEPT !.born = "previous"]]

Current(list) == \A i \in 1..Len(list) : list[i].born = "current"

(* -------------------------------- Game --------------------------------- *)

\* this.hazards and the history after a call of spawnHazards that returned
\* hz.
withHazards(g, hz) ==
  [g EXCEPT !.hazards = hz.hazards, !.obs.hazardAttempts = hz.attempts]

\* this.items and the history after a call of spawnItems that returned it.
withItems(g, it) ==
  [g EXCEPT !.items = it.items, !.obs.itemAttempts = it.attempts]

\* this.spawnHazards(count, speedRange), Math.random following the stream
\* named hs.
spawnHazardsOn(g, count, speedRange, hs) ==
  withHazards(g, spawnHazards(g.hazards, count, speedRange, g.player.pos, hs,
                              "current"))

\* this.spawnItems(count), Math.random following the stream named is.
spawnItemsOn(g, count, is) ==
  withItems(g, spawnItems(g.items, count, g.player.pos, g.hazards,
                          g.assets.cheese, is, "current"))

\* Faulty spawn calls, which ask for diff.items hazards and diff.hazards
\* items.
SpawnSwapped(g, hs, is) ==
  spawnItemsOn(spawnHazardsOn(g, Diff(g.difficultyIndex).items,
                              Diff(g.difficultyIndex).hazardSpeed, hs),
               Diff(g.difficultyIndex).hazards, is)

\* this.spawnHazards(diff.hazards, diff.hazardSpeed);
\* this.spawnItems(diff.items): the two calls that resetRun and startGame
\* make once they have emptied the lists.  hs and is name the streams
\* Math.random follows.
Spawn(g, hs, is) ==
  spawnItemsOn(spawnHazardsOn(g, Diff(g.difficultyIndex).hazards,
                              Diff(g.difficultyIndex).hazardSpeed, hs),
               Diff(g.difficultyIndex).items, is)

\* The pairs of streams (spawnHazards', spawnItems') that the specifications
\* let Math.random follow.
StreamPairs ==
  { <<"spread", "row">>, <<"late", "row">>, <<"stuck", "stuck">>,
    <<"calm", "row">>, <<"calm", "stuck">>, <<"calm", "pair">>,
    <<"pincer", "row">>, <<"wall", "pair">> }

\* What Spawn reads of a Game that resetRun or startGame has just reset:
\* the preset, the cheese image, two empty lists and a player at the centre.
Blank(idx, cheese) ==
  [difficultyIndex |-> idx, assets |-> [cheese |-> cheese],
   player |-> [pos |-> Centre], hazards |-> <<>>, items |-> <<>>,
   obs |-> [hazardAttempts |-> None, itemAttempts |-> None]]

\* Spawn on each such Game and each pair of streams, evaluated once.
FreshRuns ==
  { [idx |-> idx, cheese |-> loadAssets(img[1], img[2]).cheese, rnd |-> rnd,
     g |-> Spawn(Blank(idx, loadAssets(img[1], img[2]).cheese),
                 rnd[1], rnd[2])] :
      idx \in 0..(Len(DIFFICULTIES) - 1), img \in { NoSprites, Sprites },
      rnd \in StreamPairs }

\* What Spawn has written into the Game b, written into g.
Written(g, b) ==
  [g EXCEPT !.hazards = b.hazards, !.items = b.items,
            !.obs.hazardAttempts = b.obs.hazardAttempts,
            !.obs.itemAttempts = b.obs.itemAttempts]

\* The entries of FreshRuns for the Game g and the streams hs and is, if g
\* is as resetRun and startGame leave it.
FreshFor(g, hs, is) ==
  IF g.hazards = <<>> /\ g.items = <<>> /\ g.player.pos = Centre
  THEN { f \in FreshRuns : /\ f.idx = g.difficultyIndex
                           /\ f.cheese = g.assets.cheese
                           /\ f.rnd = << hs, is >> }
  ELSE {}

\* Spawn(g, hs, is), read from FreshRuns where that holds it.
SpawnOn(g, hs, is, fresh) ==
  IF fresh = {} THEN Spawn(g, hs, is) ELSE Written(g, Only(fresh).g)

Spawned(g, hs, is) == SpawnOn(g, hs, is, FreshFor(g, hs, is))

\* What a restart discards, for the history.
Dropped(g) ==
  [entities |-> Len(g.items) + Len(g.hazards),
   effects |-> Len(g.particles) + Len(g.floaters),
   cooldown |-> g.player.hitCooldown]

\* The list startGame and resetRun spawn into: this.items = [] (and
\* this.hazards = []).
EmptyList(old) == <<>>

\* The assignments of Game.resetRun(difficultyIndex) that come before its
\* spawn calls; null for the default argument is written as None.
cleared(g, idx) ==
  [g EXCEPT
     !.difficultyIndex = IF idx # None THEN idx ELSE g.difficultyIndex,
     !.score = 0,
     !.lives = Diff(IF idx # None THEN idx ELSE g.difficultyIndex).lives,
     !.timeLeft =
        Dbl(Diff(IF idx # None THEN idx ELSE g.difficultyIndex).time),
     !.combo = 0,
     !.comboTimer = Zero,
     !.player = NewPlayer(Centre, g.assets.mouseFrames),
     !.items = EmptyList(Retire(g.items)),
     !.hazards = EmptyList(Retire(g.hazards)),
     !.particles = <<>>,
     !.floaters = <<>>,
     !.shakeTimer = Zero,
     !.newHighScore = FALSE,
     !.obs.reset = TRUE,
     !.obs.dropped = Dropped(g),
     !.elapsed = 0, !.sinceHit = None, !.sinceCollect = None,
     !.gameOvers = 0]

\* Game.resetRun(difficultyIndex): the assignments, the two spawn calls,
\* which draw from the streams hs and is, and this.state = "menu".
resetRun(g, idx, hs, is) ==
  [Spawned(cleared(g, idx), hs, is) EXCEPT !.state = "menu"]

\* A faulty startGame, which leaves the player's cooldown running.
recentreOnly(p) == [p EXCEPT !.pos = Centre]

\* this.player.pos = new Vec2(WIDTH / 2, HEIGHT / 2);
\* this.player.hitCooldown = 0
recentre(p) == [p EXCEPT !.pos = Centre, !.hitCooldown = Zero]

\* The assignments of Game.startGame(), which come before its spawn calls.
started(g) ==
  [g EXCEPT
     !.state = "playing",
     !.timeLeft = Dbl(Diff(g.difficultyIndex).time),
     !.score = 0,
     !.lives = Diff(g.difficultyIndex).lives,
     !.combo = 0,
     !.comboTimer = Zero,
     !.player = recentre(g.player),
     !.items = EmptyList(Retire(g.items)),
     !.hazards = EmptyList(Retire(g.hazards)),
     !.particles = <<>>,
     !.floaters = <<>>,
     !.shakeTimer = Zero,
     !.newHighScore = FALSE,
     !.obs.started = TRUE,
     !.obs.dropped = Dropped(g),
     !.elapsed = 0, !.sinceHit = None, !.sinceCollect = None,
     !.gameOvers = 0]

\* A faulty startGame, which starts every run on the first preset.
startGameOnFirst(g, hs, is) ==
  Spawned(started([g EXCEPT !.difficultyIndex = 0]), hs, is)

\* Game.startGame(): the assignments and the two spawn calls, which draw
\* from the streams hs and is.
startGame(g, hs, is) == Spawned(started(g), hs, is)

\* A faulty enterGameOver, which takes a score equal to the high score for a
\* new high score.
enterGameOverOnTie(g, throws) ==
  LET g1 == [g EXCEPT !.state = "game_over",
                      !.obs.gameOver = TRUE,
                      !.gameOvers = g.gameOvers + 1]
  IN IF ~Greater(g.highScore, Num(g.score))
     THEN [g1 EXCEPT !.highScore = Num(g.score),
                     !.newHighScore = TRUE,
                     !.stored = saveHighScore(g.stored, g.score, throws),
                     !.obs.saves = g.obs.saves + 1]
     ELSE [g1 EXCEPT !.newHighScore = FALSE]

\* A faulty enterGameOver, which writes the score whether or not it is a new
\* high score.
enterGameOverAlwaysSaves(g, throws) ==
  LET g1 == [g EXCEPT !.state = "game_over",
                      !.obs.gameOver = TRUE,
                      !.gameOvers = g.gameOvers + 1,
                      !.stored = saveHighScore(g.stored, g.score, throws),
                      !.obs.saves = g.obs.saves + 1,
                      !.obs.threw = throws]
  IN IF Greater(Num(g.score), g.highScore)
     THEN [g1 EXCEPT !.highScore = Num(g.score), !.newHighScore = TRUE]
     ELSE [g1 EXCEPT !.newHighScore = FALSE]

\* A faulty enterGameOver, which saves first and forgets the new high score
\* when the write throws.
enterGameOverSaveFirst(g, throws) ==
  LET g1 == [g EXCEPT !.state = "game_over",
                      !.obs.gameOver = TRUE,
                      !.gameOvers = g.gameOvers + 1]
  IN IF Greater(Num(g.score), g.highScore)
     THEN IF throws
          THEN [g1 EXCEPT !.newHighScore = FALSE,
                          !.obs.saves = g.obs.saves + 1,
                          !.obs.threw = TRUE]
          ELSE [g1 EXCEPT !.highScore = Num(g.score),
                          !.newHighScore = TRUE,
                          !.stored = saveHighScore(g.stored, g.score, throws),
                          !.obs.saves = g.obs.saves + 1]
     ELSE [g1 EXCEPT !.newHighScore = FALSE]

\* Game.enterGameOver(); throws says whether localStorage.setItem throws.
enterGameOver(g, throws) ==
  LET g1 == [g EXCEPT !.state = "game_over",
                      !.obs.gameOver = TRUE,
                      !.gameOvers = g.gameOvers + 1]
  IN IF Greater(Num(g.score), g.highScore)
     THEN [g1 EXCEPT !.highScore = Num(g.score),
                     !.newHighScore = TRUE,
                     !.stored = saveHighScore(g.stored, g.score, throws),
                     !.obs.saves = g.obs.saves + 1,
                     !.obs.threw = throws]
     ELSE [g1 EXCEPT !.newHighScore = FALSE]

\* Lifetimes of the effects: a collect particle 0.4 s, a hit particle 0.5 s,
\* a floating text 1.0 s, the camera shake 0.25 s.
COLLECT_PARTICLE_LIFE == Decimal(2, 5)
HIT_PARTICLE_LIFE == Scaled(One, 0 - 1)
FLOATER_LIFE == One
SHAKE_TIME == Scaled(One, 0 - 2)

Repeat(n, x) == [i \in 1..n |-> x]

\* Game.spawnCollectEffect(pos, points, combo)
spawnCollectEffect(g, points, c) ==
  [g EXCEPT
     !.particles = g.particles \o Repeat(12, COLLECT_PARTICLE_LIFE),
     !.floaters = g.floaters \o
                  (IF c >= 2 THEN <<FLOATER_LIFE, FLOATER_LIFE>>
                   ELSE <<FLOATER_LIFE>>)]

\* Game.spawnHitEffect(pos)
spawnHitEffect(g) ==
  [g EXCEPT !.particles = g.particles \o Repeat(18, HIT_PARTICLE_LIFE),
            !.shakeTimer = SHAKE_TIME]

\* p.update(dt) for each, then filter((p) => p.life > 0).
Alive(life) == DLess(Zero, life)
Aged(list, dt) ==
  SelectSeq([i \in 1..Len(list) |-> DSub(list[i], dt)], Alive)

\* A faulty updateEffects, in which the effects' clock also runs the timer
\* down.
updateEffectsTicking(g, dt) ==
  [g EXCEPT !.particles = Aged(g.particles, dt),
            !.floaters = Aged(g.floaters, dt),
            !.timeLeft = DMax(Zero, DSub(g.timeLeft, dt))]

\* Game.updateEffects(dt)
updateEffects(g, dt) ==
  [g EXCEPT !.particles = Aged(g.particles, dt),
            !.floaters = Aged(g.floaters, dt)]

\* A faulty bonus, without the cap.
PointsUncapped(c) == 10 + (c - 1) * COMBO_BONUS_STEP

\* The points of a collection that leaves the combo count at c.
Points(c) == 10 + Min(COMBO_BONUS_CAP, (c - 1) * COMBO_BONUS_STEP)

\* A faulty count, which starts every collection at 1.
NextComboRestart(c, timer) == 1

\* The combo count after a collection.
NextCombo(c, timer) == IF DLess(Zero, timer) THEN c + 1 ELSE 1

\* A faulty collection, which does not restart the combo window.
collectUntimed(g, c) ==
  spawnCollectEffect(
    [g EXCEPT !.combo = c,
              !.score = g.score + Points(c),
              !.obs.awards = Append(g.obs.awards,
                                    [combo |-> c, points |-> Points(c)])],
    Points(c), c)

\* The body of the first loop of Game.handleCollisions for an item the
\* player overlaps: c is the combo count the collection leaves.
collect(g, c) ==
  spawnCollectEffect(
    [g EXCEPT !.combo = c,
              !.comboTimer = COMBO_WINDOW,
              !.score = g.score + Points(c),
              !.obs.awards = Append(g.obs.awards,
                                    [combo |-> c, points |-> Points(c)])],
    Points(c), c)

\* The first loop of Game.handleCollisions, from item i on: collected holds
\* the indices of the items collected so far.
RECURSIVE collectLoop(_, _, _)
collectLoop(g, i, collected) ==
  IF i > Len(g.items) THEN [g |-> g, collected |-> collected]
  ELSE IF Within(g.player.pos, g.items[i].pos,
                 DAdd(g.player.radius, g.items[i].radius))
       THEN Only({ collectLoop(g1, i + 1, collected \cup {i}) :
                     g1 \in { collect(g, NextCombo(g.combo, g.comboTimer)) } })
       ELSE collectLoop(g, i + 1, collected)

\* this.items.filter((it) => !collected.includes(it))
RECURSIVE Without(_, _, _)
Without(list, collected, i) ==
  IF i > Len(list) THEN <<>>
  ELSE IF i \in collected THEN Without(list, collected, i + 1)
       ELSE <<list[i]>> \o Without(list, collected, i + 1)

\* The hazards the player overlaps, by index; hazard.size * 0.5 is exact.
Overlapping(g) ==
  { i \in 1..Len(g.hazards) :
      Within(g.player.pos, g.hazards[i].pos,
             DAdd(g.player.radius, Scaled(g.hazards[i].size, 0 - 1))) }

\* The body of the hazard loop of Game.handleCollisions for the first
\* overlapping hazard, the i-th; nd is the direction nudgeAwayFrom draws if
\* it needs one.
hitBy(g, i, nd) ==
  spawnHitEffect([g EXCEPT
                    !.lives = g.lives - 1,
                    !.player = markHit(g.player),
                    !.hazards[i] = nudgeAwayFrom(g.hazards[i], g.player.pos,
                                                 nd),
                    !.obs.hit = TRUE,
                    !.obs.atCheck = g.hazards,
                    !.obs.nudged = i])

First(set) == CHOOSE k \in set : \A j \in set : k <= j

Last(set) == CHOOSE k \in set : \A j \in set : k >= j

\* The hazard loop without its break: the last overlapping hazard hits too.
hitFirstAndLast(g, over, nd) ==
  IF over = {} THEN g
  ELSE IF Last(over) = First(over) THEN hitBy(g, First(over), nd)
  ELSE hitBy(hitBy(g, First(over), nd), Last(over), nd)

\* The hazard loop of Game.handleCollisions, over being the hazards the
\* player overlaps: the first of them hits, and the loop breaks.
hitFirst(g, over, nd) ==
  IF over = {} THEN g ELSE hitBy(g, First(over), nd)

\* if (this.player.canTakeHit()) and the hazard loop.
hazardLoop(g, nd) ==
  IF ~canTakeHit(g.player) THEN g ELSE hitFirst(g, Overlapping(g), nd)

\* The filter forgotten: the collected items stay in the list.
removeNothing(r) == r.g

\* if (collected.length) this.items = this.items.filter(...)
removeCollected(r) ==
  IF r.collected # {}
  THEN [r.g EXCEPT !.items = Without(r.g.items, r.collected, 1)]
  ELSE r.g

\* The respawn forgotten: an empty list stays empty.
respawnNever(g, is) == g

\* if (this.items.length === 0) this.spawnItems(diff.items); is names the
\* stream the respawn draws from.
respawnIfEmpty(g, is) ==
  IF Len(g.items) = 0
  THEN spawnItemsOn(g, Diff(g.difficultyIndex).items, is)
  ELSE g

\* The history's note of the cooldown the hit check is about to see.
noteCooldown(g) == [g EXCEPT !.obs.hitCooldown = g.player.hitCooldown]

\* Game.handleCollisions()
handleCollisions(g, is, nd) ==
  Only({ hazardLoop(g3, nd) :
           g3 \in { noteCooldown(g2) :
             g2 \in { respawnIfEmpty(g1, is) :
               g1 \in { removeCollected(r) :
                 r \in { collectLoop(g, 1, {}) } } } } })

\* A faulty decrement of the timer, without the clamp at 0.
TimeAfterUnclamped(t, dt) == DSub(t, dt)

\* this.timeLeft = Math.max(0, this.timeLeft - dt)
TimeAfter(t, dt) == DMax(Zero, DSub(t, dt))

\* A faulty end-of-run test, which forgets the lives.
RunEndedOnTimeOnly(g) == DLeq(g.timeLeft, Zero)

\* if (this.timeLeft <= 0 || this.lives <= 0)
RunEnded(g) == DLeq(g.timeLeft, Zero) \/ g.lives <= 0

AllHazardsUpdated(list, dt) == [i \in 1..Len(list) |-> HazardUpdate(list[i], dt)]

\* The integer part of a double x, 0 <= x < 2^53.
Floor(x) ==
  IF x.sign = 0 \/ 0 - x.exp - 28 > 25 THEN 0
  ELSE IF 0 - x.exp - 28 >= 0 THEN x.hi \div 2^(0 - x.exp - 28)
  ELSE x.hi * 2^(x.exp + 28) + (x.lo \div 2^(0 - x.exp))

\* The history counts a frame's dt to the nearest millisecond.
Millis(dt) == Floor(DAdd(DMul(dt, Dbl(1000)), Scaled(One, 0 - 1)))

\* A history counter advanced by ms and held at its cap.
Advance(since, ms, cap) == IF since = None THEN None ELSE Min(cap, since + ms)

\* this.comboTimer = Math.max(0, this.comboTimer - dt);
\* if (this.comboTimer === 0) this.combo = 0, to being the timer's new value.
comboTimerSet(g, to) ==
  [g EXCEPT !.comboTimer = to,
            !.combo = IF to = Zero THEN 0 ELSE g.combo]

\* The combo timer's countdown at the head of the playing part of update.
comboCountdown(g, dt) ==
  IF DLess(Zero, g.comboTimer)
  THEN comboTimerSet(g, DMax(Zero, DSub(g.comboTimer, dt)))
  ELSE g

\* The history's clocks, advanced by the ms of a frame.
clocked(g, ms) ==
  [g EXCEPT !.elapsed = g.elapsed + ms,
            !.sinceHit = Advance(g.sinceHit, ms, Millis(INVULN_TIME)),
            !.sinceCollect = Advance(g.sinceCollect, ms,
                                     Millis(COMBO_WINDOW) + Millis(MAX_DT))]

\* this.player.update(keys, dt) and every hazard.update(dt); the history's
\* clocks advance with them.
moveAll(g, dt, keys) ==
  clocked([g EXCEPT !.player = PlayerUpdate(g.player, keys, dt),
                    !.hazards = AllHazardsUpdated(g.hazards, dt)],
          Millis(dt))

\* The timer's decrement after handleCollisions; the history notes the gaps
\* and restarts the clocks of the events that happened.
countDown(g, dt) ==
  [g EXCEPT
     !.timeLeft = TimeAfter(g.timeLeft, dt),
     !.obs.hitGap = IF g.obs.hit THEN g.sinceHit ELSE None,
     !.sinceHit = IF g.obs.hit THEN 0 ELSE g.sinceHit,
     !.obs.collectGap = IF g.obs.awards # <<>> THEN g.sinceCollect ELSE None,
     !.sinceCollect = IF g.obs.awards # <<>> THEN 0 ELSE g.sinceCollect]

\* if (this.timeLeft <= 0 || this.lives <= 0) this.enterGameOver()
endIfOver(g, throws) == IF RunEnded(g) THEN enterGameOver(g, throws) ELSE g

\* Game.update(dt, keys), the part that runs in the playing state.
updatePlaying(g, dt, keys, is, nd, throws) ==
  Only({ endIfOver(g4, throws) :
           g4 \in { countDown(g3, dt) :
             g3 \in { handleCollisions(g2, is, nd) :
               g2 \in { moveAll(g1, dt, keys) :
                 g1 \in { comboCountdown(g, dt) } } } } })

\* The shake timer's countdown.
shakeCountdown(g, dt) ==
  IF DLess(Zero, g.shakeTimer)
  THEN [g EXCEPT !.shakeTimer = DMax(Zero, DSub(g.shakeTimer, dt))]
  ELSE g

\* A faulty update, whose early return forgets the Game Over screen.
whenPlayingOrOver(g, dt, keys, is, nd, throws) ==
  IF g.state \notin {"playing", "game_over"} THEN g
  ELSE updatePlaying(g, dt, keys, is, nd, throws)

\* if (this.state !== "playing") return; and the rest of update.
whenPlaying(g, dt, keys, is, nd, throws) ==
  IF g.state # "playing" THEN g
  ELSE updatePlaying(g, dt, keys, is, nd, throws)

\* The history at the call of update.
called(g) == [g EXCEPT !.obs = [Quiet("update") EXCEPT !.from = g.state]]

\* Game.update(dt, keys)
update(g, dt, keys, is, nd, throws) ==
  Only({ whenPlaying(g3, dt, keys, is, nd, throws) :
           g3 \in { updateEffects(g2, dt) :
             g2 \in { shakeCountdown(g1, dt) :
               g1 \in { called(g) } } } })

\* The number of presets: DIFFICULTIES.length.
NumDifficulties == Len(DIFFICULTIES)

\* What a branch of Game.onKeyDown leaves: the game g, and the method the
\* branch calls last on it: "startGame", "resetRun" (which every branch
\* calls with this.difficultyIndex for its argument) or "" (neither).  No
\* branch calls more than one of the two.
Ends(g, call) == [g |-> g, call |-> call]

\* Faulty handling of q: the preset falls back to the first.
quitToFirst(g) == Ends([g EXCEPT !.difficultyIndex = 0], "resetRun")

\* if (key === "q") { this.resetRun(this.difficultyIndex); return; }
quit(g) == Ends(g, "resetRun")

\* A faulty toggle, which pauses but never resumes.
pauseOnly(g) == [g EXCEPT !.state = "paused"]

\* this.state = this.state === "playing" ? "paused" : "playing";
togglePause(g) ==
  [g EXCEPT !.state = IF g.state = "playing" THEN "paused" ELSE "playing"]

\* A faulty step down the menu, which stops at the last preset.
nextDifficultyNoWrap(i) == Min(i + 1, NumDifficulties - 1)

\* (this.difficultyIndex + 1) % DIFFICULTIES.length
nextDifficulty(i) == (i + 1) % NumDifficulties

\* Faulty handling of a key on the Game Over screen: r restarts the run.
gameOverKeyRestarts(g, key) ==
  IF key \in {"Enter", " ", "r"} THEN Ends(g, "startGame")
  ELSE IF key = "m" THEN Ends(g, "resetRun")
  ELSE Ends(g, "")

\* Faulty handling of a key on the Game Over screen: a digit starts a run,
\* as it does in the menu.
gameOverKeyDigits(g, key) ==
  IF key \in {"Enter", " ", "1", "2", "3"} THEN Ends(g, "startGame")
  ELSE IF key \in {"r", "m"} THEN Ends(g, "resetRun")
  ELSE Ends(g, "")

\* The body of if (this.state === "game_over") in Game.onKeyDown.
gameOverKey(g, key) ==
  IF key \in {"Enter", " "} THEN Ends(g, "startGame")
  ELSE IF key \in {"r", "m"} THEN Ends(g, "resetRun")
  ELSE Ends(g, "")

\* this.difficultyIndex = (this.difficultyIndex - 1 + DIFFICULTIES.length)
\*                        % DIFFICULTIES.length
previousDifficulty(i) == (i - 1 + NumDifficulties) % NumDifficulties

\* this.difficultyIndex = clamp(Number.parseInt(key, 10) - 1, 0,
\*                              DIFFICULTIES.length - 1)
digitDifficulty(key) == Max(0, Min(NumDifficulties - 1, DigitValue(key) - 1))

\* The body of if (this.state === "menu") in Game.onKeyDown; a key that
\* does not return from it falls through to the Game Over test, which the
\* menu fails.
menuKey(g, key) ==
  IF key = "ArrowUp"
  THEN Ends([g EXCEPT !.difficultyIndex =
               previousDifficulty(g.difficultyIndex)], "")
  ELSE IF key = "ArrowDown"
  THEN Ends([g EXCEPT !.difficultyIndex = nextDifficulty(g.difficultyIndex)],
            "")
  ELSE IF key \in {"1", "2", "3"}
  THEN Ends([g EXCEPT !.difficultyIndex = digitDifficulty(key)], "startGame")
  ELSE IF key \in {"Enter", " "} THEN Ends(g, "startGame")
  ELSE Ends(g, "")

\* The body of if (this.state === "paused") in Game.onKeyDown.
pausedKey(g, key) ==
  IF key = "r" THEN Ends(g, "startGame")
  ELSE IF key = "m" THEN Ends(g, "resetRun")
  ELSE Ends(g, "")

\* The branches of Game.onKeyDown, in the code's order.
keyBranch(g, key) ==
  IF key = "q" THEN quit(g)
  ELSE IF g.state \in {"playing", "paused"} /\ key \in {"p", "Escape"}
  THEN Ends(togglePause(g), "")
  ELSE IF g.state = "playing" /\ key = "r" THEN Ends(g, "startGame")
  ELSE IF g.state = "paused" THEN pausedKey(g, key)
  ELSE IF g.state = "menu" THEN menuKey(g, key)
  ELSE IF g.state = "game_over" THEN gameOverKey(g, key)
  ELSE Ends(g, "")

\* The call a branch ends with.
ended(e, hs, is) ==
  IF e.call = "startGame" THEN startGame(e.g, hs, is)
  ELSE IF e.call = "resetRun" THEN resetRun(e.g, e.g.difficultyIndex, hs, is)
  ELSE e.g

\* The history at the call of onKeyDown.
keyed(g) == [g EXCEPT !.obs = [Quiet("key") EXCEPT !.from = g.state]]

\* Game.onKeyDown(key); hs and is name the streams a spawn call draws from.
onKeyDown(g, key, hs, is) == ended(keyBranch(keyed(g), key), hs, is)

\* new Game(assets): the fields' first values, the stored high score read,
\* then resetRun().
construct(loaded, value, throws, hs, is) ==
  LET g == [assets |-> loaded,
            state |-> "menu", difficultyIndex |-> 0, score |-> 0,
            lives |-> Diff(0).lives, timeLeft |-> Dbl(Diff(0).time),
            combo |-> 0, comboTimer |-> Zero,
            player |-> NewPlayer(Centre, loaded.mouseFrames),
            items |-> <<>>, hazards |-> <<>>, particles |-> <<>>,
            floaters |-> <<>>, shakeTimer |-> Zero,
            highScore |-> loadHighScore(value, throws),
            newHighScore |-> FALSE, stored |-> value,
            obs |-> [Quiet("new") EXCEPT !.threw = throws, !.loads = 1],
            elapsed |-> 0, sinceHit |-> None, sinceCollect |-> None,
            gameOvers |-> 0]
  IN resetRun(g, None, hs, is)

(* ------------------------------- inputs -------------------------------- *)

\* An environment names the inputs a specification draws from:
\*   images   what the image files are that the page may load: pairs of the
\*            number of tiles of the mouse sheet and the cheese image
\*   stored   what localStorage may hold when the page loads
\*   broken   whether localStorage may throw (on getItem and on setItem)
\*   streams  the pairs of streams (spawnHazards', spawnItems') that
\*            Math.random may follow
\*   nudges   the pairs of values of Math.random() (in 1024ths) that
\*            nudgeAwayFrom may draw
\*   first    the times between the first frame of a run and the frame
\*            before it (now - last), in ms
\*   gaps     the same for every other frame
\*   held     the sets of keys a frame may find held at the start of a run
\*   lead     the Playing time of a run (ms) during which held is chosen
\*            from
\*   legs     the keys held after that: << until, keys >>, one after the
\*            other, until being Playing time of the run (ms)
\*   keys     the keys of keydown events ("x": a key without a binding)
\*   every    the Playing time (ms) between the moments of a run at which
\*            keydown events arrive

AllKeys == {"q", "p", "Escape", "r", "m", "ArrowUp", "ArrowDown", "1", "2",
            "3", "Enter", " ", "x"}

(* ---------------------------- specification ---------------------------- *)

Starts(g) ==
  /\ assets = g.assets
  /\ state = g.state
  /\ difficultyIndex = g.difficultyIndex
  /\ score = g.score
  /\ lives = g.lives
  /\ timeLeft = g.timeLeft
  /\ combo = g.combo
  /\ comboTimer = g.comboTimer
  /\ player = g.player
  /\ items = g.items
  /\ hazards = g.hazards
  /\ particles = g.particles
  /\ floaters = g.floaters
  /\ shakeTimer = g.shakeTimer
  /\ highScore = g.highScore
  /\ newHighScore = g.newHighScore
  /\ stored = g.stored
  /\ obs = g.obs
  /\ elapsed = g.elapsed
  /\ sinceHit = g.sinceHit
  /\ sinceCollect = g.sinceCollect
  /\ gameOvers = g.gameOvers

\* boot(): game = new Game(assets).
InitOn(E) ==
  \E img \in E.images, value \in E.stored, throws \in E.broken,
     rnd \in E.streams :
    Starts(construct(loadAssets(img[1], img[2]), value, throws, rnd[1],
                     rnd[2]))

\* The keys held at time t of a run by a player that follows legs, a
\* sequence of << until, keys >>: those of the first leg that ends after t,
\* none after the last.
Leg(legs, t) ==
  LET ahead == { i \in 1..Len(legs) : t < legs[i][1] }
  IN IF ahead = {} THEN {}
     ELSE legs[CHOOSE i \in ahead : \A j \in ahead : i <= j][2]

\* The sets of held keys a frame may see: any of E.held until the run has
\* lasted E.lead, those of E.legs from then on.
Holds(E) == IF elapsed < E.lead THEN E.held ELSE { Leg(E.legs, elapsed) }

\* tick(now), gap being now - last: dt = Math.min(0.05, (now - last) / 1000)
\* and game.update(dt, keys).
tick(g, gap, keys, is, nd, throws) ==
  update(g, DMin(MAX_DT, DDiv(Dbl(gap), Dbl(1000))), keys, is, nd, throws)

\* The times since the frame before that a frame may find: any of E.first
\* in the frames that start a run's clock, any of E.gaps in the others.
Gaps(E) == IF state = "playing" /\ elapsed = 0 THEN E.first ELSE E.gaps

\* What a frame may read besides the time and the keys: the stream the
\* items of a respawn are drawn from, the pair of values nudgeAwayFrom
\* draws, and whether localStorage throws.
Inputs(E) ==
  { << rnd[2], nd, throws >> :
      rnd \in E.streams, nd \in E.nudges, throws \in E.broken }

FirstInput(E) == CHOOSE in \in Inputs(E) : TRUE

\* The frame that ended in g drew a direction for its nudge: the hazard
\* that hit shared the player's place.
Drew(g) == g.obs.hit /\ g.obs.atCheck[g.obs.nudged].pos = g.player.pos

\* The inputs on which the frame that ended in g may end otherwise: those
\* that differ from the first only in what the frame read (the stream if it
\* respawned, the nudge if it drew one, the failure if it saved).
Read(E, g) ==
  { in \in Inputs(E) :
      /\ g.obs.itemAttempts = None => in[1] = FirstInput(E)[1]
      /\ ~Drew(g) => in[2] = FirstInput(E)[2]
      /\ g.obs.saves = 0 => in[3] = FirstInput(E)[3] }

RECURSIVE Outcomes(_, _, _, _)

\* gs being the outcomes of a frame on the inputs ins: if ins is the first
\* input alone and the frame read more, the outcomes on all that it read.
Settle(E, gap, keys, ins, gs) ==
  IF ins = { FirstInput(E) } /\ UNION { Read(E, g) : g \in gs } # ins
  THEN Outcomes(E, gap, keys, UNION { Read(E, g) : g \in gs })
  ELSE gs

\* The games a call of tick may leave on the inputs ins.
Outcomes(E, gap, keys, ins) ==
  Settle(E, gap, keys, ins,
         { tick(Self, gap, keys, in[1], in[2], in[3]) : in \in ins })

\* One frame: a call of tick.  The inputs a frame does not read are not
\* enumerated.
FrameOn(E) ==
  \E gap \in Gaps(E), keys \in Holds(E) :
    \E g \in Outcomes(E, gap, keys, { FirstInput(E) }) : Becomes(g)

\* The moments at which keydown events arrive: any outside the Playing
\* state; in it, every E.every of the run's time and after a frame that took
\* a life or collected an item.
Attentive(E) ==
  \/ state # "playing"
  \/ elapsed % E.every = 0
  \/ obs.hit
  \/ obs.awards # <<>>

\* The pairs of streams a keydown event may read: every pair if the key's
\* branch ends with a method that spawns, none but the first otherwise.
StreamsOf(E, e) ==
  IF e.call = "" THEN { CHOOSE rnd \in E.streams : TRUE } ELSE E.streams

\* One keydown event: game.onKeyDown(key).
KeyDownOn(E) ==
  /\ Attentive(E)
  /\ \E key \in E.keys :
       \E rnd \in StreamsOf(E, keyBranch(keyed(Self), key)) :
         Becomes(onKeyDown(Self, key, rnd[1], rnd[2]))

\* One keydown event of which the history keeps the key.
KeyLoggedOn(E) ==
  /\ Attentive(E)
  /\ \E key \in E.keys :
       \E rnd \in StreamsOf(E, keyBranch(keyed(Self), key)) :
         \E g \in { onKeyDown(Self, key, rnd[1], rnd[2]) } :
           Becomes([g EXCEPT !.obs.key = key])

\* The environment of Spec: no sprites, the design's, or the design's behind
\* a sheet that does not load and a blank one; every key, a player that
\* stands still, frames that follow one another at once or after 0.05 s,
\* hazards that cross the player's place, early or late, or fail to spawn.
Env ==
  [images |-> { NoSprites, Sprites, BlankSheet },
   stored |-> { Null },
   broken |-> { FALSE },
   streams |-> { <<"spread", "row">>, <<"late", "row">>,
                 <<"stuck", "stuck">> },
   nudges |-> { <<1023, 512>>, <<512, 512>> },
   first |-> {0, 50},
   gaps |-> {0, 50},
   held |-> { {} },
   lead |-> 0,
   legs |-> <<>>,
   keys |-> AllKeys,
   every |-> 1000]

Init == InitOn(Env)

Frame == FrameOn(Env)

KeyDown == KeyDownOn(Env)

Next == Frame \/ KeyDown

Spec == Init /\ [][Next]_vars

\* The number of frames at the start of a run in which the player of
\* SpecCollect chooses whether to walk.
LeadFrames == 4

\* The environment of SpecCollect: Hard runs (key 3 in the menu, Enter after
\* a game over; Enter in the menu starts an Easy run) of frames of 0.05 s,
\* in which the player walks to the right, or rests, for LeadFrames frames,
\* walks on along a row of items to the right wall, turns 1.95 s into the
\* run, walks back for 1.35 s along the items that have respawned and then
\* stands still until the run ends; no hazard comes near.  With sprites, a
\* player that never rested collects the first respawned items exactly
\* 1.25 s after the last of the first batch.  The stored high score is
\* "30".
EnvCollect ==
  [images |-> { NoSprites, Sprites },
   stored |-> { Text(<<"3", "0">>) },
   broken |-> { FALSE },
   streams |-> { <<"calm", "row">> },
   nudges |-> { <<1023, 512>> },
   first |-> { 50 },
   gaps |-> { 50 },
   held |-> { {}, {"ArrowRight"} },
   lead |-> LeadFrames * 50,
   legs |-> << << 39 * 50, {"ArrowRight"} >>,
               << 66 * 50, {"ArrowLeft"} >> >>,
   keys |-> {"3", "Enter"},
   every |-> 1000]

InitCollect == InitOn(EnvCollect)

FrameCollect == FrameOn(EnvCollect)

KeyDownCollect == KeyDownOn(EnvCollect)

NextCollect == FrameCollect \/ KeyDownCollect

SpecCollect == InitCollect /\ [][NextCollect]_vars

\* The environment of SpecCombo: that of SpecCollect with frames of 0.025 s
\* and a player that never rests.
EnvCombo == [EnvCollect EXCEPT !.first = { 25 }, !.gaps = { 25 },
                               !.held = { {"ArrowRight"} },
                               !.keys = {"3"}]

InitCombo == InitOn(EnvCombo)

FrameCombo == FrameOn(EnvCombo)

KeyDownCombo == KeyDownOn(EnvCombo)

NextCombo25 == FrameCombo \/ KeyDownCombo

SpecCombo == InitCombo /\ [][NextCombo25]_vars

\* The environment of SpecHit: every key, and runs in which the player rests
\* between two hazards that reach it in the same frame.  The history keeps
\* the key of each keydown event.
EnvHit == [Env EXCEPT !.streams = { <<"pincer", "row">> }]

InitHit == InitOn(EnvHit)

FrameHit == FrameOn(EnvHit)

KeyDownHit == KeyLoggedOn(EnvHit)

NextHit == FrameHit \/ KeyDownHit

SpecHit == InitHit /\ [][NextHit]_vars

\* The environment of SpecRespawn: Hard runs of a player that walks as that
\* of SpecCollect does and never rests; Math.random lays the items out in a
\* row or draws the same two places again and again, both within 80 px of
\* where the player collects the only item.  localStorage holds, when the
\* page loads, nothing, "abc", "30", "7px", a tab and "5", 2^31, twenty
\* nines (which no double is: the nearest is 10^20) or a one and 399 zeros
\* (beyond every finite double), and any call of it may throw.
EnvRespawn ==
  [EnvCollect EXCEPT !.streams = { <<"calm", "row">>, <<"calm", "stuck">> },
                     !.keys = {"3"},
                     !.images = { Sprites },
                     !.held = { {"ArrowRight"} },
                     !.stored = { Null, Text(<<"a", "b", "c">>),
                                  Text(<<"3", "0">>), Text(<<"7", "p", "x">>),
                                  Text(<<"\t", "5">>),
                                  Text(<<"2", "1", "4", "7", "4", "8", "3",
                                         "6", "4", "8">>),
                                  Text([i \in 1..20 |-> "9"]),
                                  Text([i \in 1..400 |->
                                          IF i = 1 THEN "1" ELSE "0"]) },
                     !.broken = { FALSE, TRUE }]

InitRespawn == InitOn(EnvRespawn)

FrameRespawn == FrameOn(EnvRespawn)

KeyDownRespawn == KeyDownOn(EnvRespawn)

NextRespawn == FrameRespawn \/ KeyDownRespawn

SpecRespawn == InitRespawn /\ [][NextRespawn]_vars

\* The number of method calls a behaviour of SpecMotion makes.
MaxCalls == 2

\* The inputs of SpecMotion, which calls Player.update, Hazard.update and
\* Hazard.nudgeAwayFrom on a player and a hazard constructed anywhere:
\*   images   the images loaded
\*   places   where new Player(pos) is constructed: inside the field, next
\*            to a corner, and outside the field
\*   hazards  where new Hazard(pos) is constructed and the velocity it has:
\*            on the centre, next to it, heading for a wall, heading for a
\*            corner, and outside the field (where a nudge can leave it)
\*   keys     the sets of keys held
\*   dts      the dt of a call: 0, 1/60 s, 0.05 s, 1.5 s
\*   nudges   the pairs of values of Math.random() nudgeAwayFrom may draw:
\*            the directions (511/512, 0), (0, 0) and about (-0.6, 0.8)
EnvMotion ==
  [images |-> { NoSprites, Sprites },
   places |-> { Centre, P(30, 70), P(940, 530), P(0 - 50, 0), P(1000, 600),
                P(480, 20) },
   hazards |-> { [pos |-> Centre, vel |-> P(190, 0)],
                 [pos |-> P(490, 280), vel |-> P(0, 0 - 120)],
                 [pos |-> P(930, 300), vel |-> P(200, 0 - 60)],
                 [pos |-> P(30, 70), vel |-> P(0 - 150, 0 - 100)],
                 [pos |-> P(950, 10), vel |-> P(120, 90)] },
   keys |-> { {}, {"ArrowLeft"}, {"d", "ArrowDown"}, {"a", "ArrowUp"},
              {"s", "ArrowLeft"}, {"w", "ArrowRight"},
              {"ArrowLeft", "ArrowRight"} },
   dts |-> { Zero, Decimal(1, 60), MAX_DT, Decimal(3, 2) },
   nudges |-> { <<1023, 512>>, <<512, 512>>, <<205, 922>> }]

\* A Game whose player and only hazard were constructed at one of the places.
InitMotion ==
  \E img \in EnvMotion.images, place \in EnvMotion.places,
     h \in EnvMotion.hazards :
    Starts([construct(loadAssets(img[1], img[2]), Null, FALSE, "stuck",
                      "stuck")
              EXCEPT
              !.player = NewPlayer(place,
                                   loadAssets(img[1], img[2]).mouseFrames),
              !.hazards = << NewHazard(h.pos, h.vel, "current") >>,
              !.items = <<>>])

\* this.player.update(keys, dt)
PlayerStep ==
  /\ obs.calls < MaxCalls
  /\ \E keys \in EnvMotion.keys, dt \in EnvMotion.dts :
       Becomes([Self EXCEPT
                  !.player = PlayerUpdate(player, keys, dt),
                  !.obs = [Quiet("Player.update") EXCEPT
                             !.calls = obs.calls + 1, !.dt = dt]])

\* hazard.update(dt)
HazardStep ==
  /\ obs.calls < MaxCalls
  /\ \E dt \in EnvMotion.dts :
       Becomes([Self EXCEPT
                  !.hazards = << HazardUpdate(hazards[1], dt) >>,
                  !.obs = [Quiet("Hazard.update") EXCEPT
                             !.calls = obs.calls + 1, !.dt = dt]])

\* hazard.nudgeAwayFrom(this.player.pos)
NudgeStep ==
  /\ obs.calls < MaxCalls
  /\ \E nd \in EnvMotion.nudges :
       Becomes([Self EXCEPT
                  !.hazards = << nudgeAwayFrom(hazards[1], player.pos, nd) >>,
                  !.obs = [Quiet("Hazard.nudgeAwayFrom") EXCEPT
                             !.calls = obs.calls + 1]])

NextMotion == PlayerStep \/ HazardStep \/ NudgeStep

SpecMotion == InitMotion /\ [][NextMotion]_vars

\* The environment of SpecSession: Hard runs one after another, which p may
\* pause and r, q and m may cut short; the player walks to the right until
\* half a second has passed and then stands still.  Two items lie on its
\* way, the others far from it.  The stored high score is "10", and any call
\* of localStorage may throw.
EnvSession ==
  [EnvCollect EXCEPT !.keys = {"3", "p", "q", "r", "m"},
                     !.streams = { <<"calm", "pair">> },
                     !.stored = { Text(<<"1", "0">>) },
                     !.lead = 0,
                     !.legs = << << 10 * 50, {"ArrowRight"} >> >>,
                     !.broken = { FALSE, TRUE }]

InitSession == InitOn(EnvSession)

FrameSession == FrameOn(EnvSession)

KeyDownSession == KeyDownOn(EnvSession)

NextSession == FrameSession \/ KeyDownSession

SpecSession == InitSession /\ [][NextSession]_vars

\* The environment of SpecWall: Easy runs (Enter) in which the player walks
\* to the left for two seconds, behind a hazard that runs to the left wall
\* at a lower speed, and then stands still; every frame lasts 0.05 s, the
\* longest dt tick passes on; the run may be paused.  Sprites or none.
EnvWall ==
  [EnvCollect EXCEPT !.streams = { <<"wall", "pair">> },
                     !.stored = { Null },
                     !.held = { {"ArrowLeft"} },
                     !.lead = 2000,
                     !.legs = <<>>,
                     !.keys = {"Enter", "p"}]

InitWall == InitOn(EnvWall)

FrameWall == FrameOn(EnvWall)

KeyDownWall == KeyDownOn(EnvWall)

NextWall == FrameWall \/ KeyDownWall

SpecWall == InitWall /\ [][NextWall]_vars

(* ------------------------------ properties ----------------------------- *)

\* The preset of the current run.
Preset == Diff(difficultyIndex)

InRun == state \in {"playing", "paused"}

\* C1: a frame takes a life only if the cooldown, after that frame's
\* decrement in Player.update, is no longer positive; hence a hit that is not
\* the run's first comes at least INVULN_TIME of Playing-state dt after the
\* one before it (1000 ms).
C1_InvulnerabilityGatesDamage ==
  [][obs'.op = "update" /\ lives' < lives
       => /\ obs'.hit
          /\ DLeq(obs'.hitCooldown, Zero)
          /\ (obs'.hitGap = None \/ obs'.hitGap >= 1000)]_vars

\* A frame of a run in which a hazard overlaps the player during the cooldown
\* and no life is taken.
C1_Witness ==
  /\ obs.op = "update" /\ state = "playing"
  /\ DLess(Zero, obs.hitCooldown) /\ ~obs.hit
  /\ Overlapping(Self) # {}

\* C2: lives and timeLeft are never negative.
C2_NeverNegative == lives >= 0 /\ DLeq(Zero, timeLeft)

\* A run whose last frame was longer than the time that was left.
C2_Witness ==
  /\ obs.gameOver /\ timeLeft = Zero
  /\ elapsed > Preset.time * 1000

\* C3: no state between handlers has a run going (playing or paused) with no
\* life left: the frame whose hit takes the last life ends in game_over,
\* whatever time is left.
C3_LivesOutEndsRun ==
  /\ InRun => lives > 0
  /\ obs.hit /\ lives = 0 => state = "game_over" /\ obs.gameOver

\* The third hit of a Hard run ends it with time to spare.
C3_Witness ==
  /\ obs.hit /\ lives = 0 /\ DLess(Zero, timeLeft)
  /\ state = "game_over"
  /\ Preset.lives = 3 /\ obs.hitGap >= 1000

\* No hazard hit and no collection has happened in the current run.
NoCollision == sinceHit = None /\ sinceCollect = None

\* C4: a run that stays in Playing ends when the time is up: no run is in
\* progress once the dt of its Playing frames adds up to the preset's
\* duration, so that it is over in the frame in which the accumulated dt
\* reaches the duration; a run that ends with lives left does not end sooner;
\* and a run without a collision ends with score 0 and the preset's lives.
C4_TimeOutEndsRun ==
  /\ InRun => elapsed < Preset.time * 1000
  /\ obs.gameOver /\ lives > 0 => elapsed >= Preset.time * 1000
  /\ state = "game_over" /\ NoCollision
       => score = 0 /\ lives = Preset.lives

\* C5: enterGameOver runs in at most one frame of a run, also when timeLeft
\* and lives reach 0 in the same frame; a frame in game_over does not run it
\* and leaves the state game_over.
C5_GameOverOnce ==
  /\ [](gameOvers <= 1)
  /\ [](obs.gameOver => gameOvers = 1 /\ state = "game_over")
  /\ [][state = "game_over" /\ obs'.op = "update"
          => state' = "game_over" /\ ~obs'.gameOver /\ gameOvers' = gameOvers]_vars

\* A frame in game_over after a run whose last frame took the last life and
\* used up the time.
C5_Witness ==
  /\ state = "game_over" /\ obs.op = "update" /\ obs.from = "game_over"
  /\ lives = 0 /\ timeLeft = Zero

\* C6: the frame that enters game_over leaves highScore at the maximum of
\* its old value and the score, and newHighScore true exactly if the score
\* was strictly greater than the old highScore; startGame and resetRun leave
\* newHighScore false, and it is true in no state but game_over.
C6_HighScoreOnGameOver ==
  /\ [][obs'.gameOver
          => /\ highScore' = IF Greater(Num(score'), highScore)
                             THEN Num(score') ELSE highScore
             /\ newHighScore' = Greater(Num(score'), highScore)]_vars
  /\ [][obs'.started \/ obs'.reset => ~newHighScore']_vars
  /\ [](newHighScore => state = "game_over")

\* A run ends with a score equal to the high score that an earlier run of
\* this session set.
C6_Witness ==
  /\ obs.gameOver /\ ~newHighScore
  /\ Num(score) = highScore /\ stored = Text(String(score))
  /\ score > 30

\* C7 as stated: after startGame the number of hazards and of items equals
\* the preset's, whatever Math.random draws.
C7_ExactCounts ==
  obs.started =>
    /\ lives = Preset.lives /\ timeLeft = Dbl(Preset.time)
    /\ Len(hazards) = Preset.hazards
    /\ Len(items) = Preset.items

\* C7: after startGame, lives and timeLeft equal the preset's; the hazards
\* and the items number at most the preset's, and exactly the preset's
\* unless the spawn loop used up its attempts (25 and 20 per entity asked).
C7_CountsWithinAttempts ==
  obs.started =>
    /\ lives = Preset.lives /\ timeLeft = Dbl(Preset.time)
    /\ Len(hazards) <= Preset.hazards
    /\ Len(items) <= Preset.items
    /\ obs.hazardAttempts < Preset.hazards * HAZARD_ATTEMPTS
         => Len(hazards) = Preset.hazards
    /\ obs.itemAttempts < Preset.items * ITEM_ATTEMPTS
         => Len(items) = Preset.items

\* A Hard run starts with fewer hazards and fewer items than the preset's,
\* both spawn loops having used up their attempts.
C7_Witness ==
  /\ obs.started /\ Preset.name = "Hard"
  /\ Len(hazards) < Preset.hazards
  /\ obs.hazardAttempts = Preset.hazards * HAZARD_ATTEMPTS
  /\ Len(items) < Preset.items
  /\ obs.itemAttempts = Preset.items * ITEM_ATTEMPTS

\* C8: startGame, from whatever state, leaves state playing, score, combo
\* and comboTimer 0, the player at the centre with hitCooldown 0, no
\* particle or floating text, shakeTimer 0, and only items and hazards
\* created by this start.
C8_StartResetsRun ==
  obs.started =>
    /\ state = "playing"
    /\ score = 0 /\ combo = 0 /\ comboTimer = Zero
    /\ player.pos = P(480, 270) /\ player.hitCooldown = Zero
    /\ particles = <<>> /\ floaters = <<>> /\ shakeTimer = Zero
    /\ Current(items) /\ Current(hazards)

\* A restart with r in the middle of a run, just after a hit: there were
\* entities, effects and a cooldown to discard.
C8_Witness ==
  /\ obs.started /\ obs.from = "playing"
  /\ obs.dropped.entities > 0
  /\ obs.dropped.effects > 0
  /\ DLess(Zero, obs.dropped.cooldown)

\* The points the claim gives an item that leaves the combo count at c.
StatedPoints(c) == 10 + Min(14, 2 * (c - 1))

RECURSIVE StatedSum(_)
StatedSum(awards) ==
  IF awards = <<>> THEN 0
  ELSE StatedPoints(Head(awards).combo) + StatedSum(Tail(awards))

\* C9: a frame adds to score, for each item it collects, 10 + min(14,
\* 2 * (combo - 1)) points, combo being the count after that collection; the
\* counts of the items of one frame follow one another and the last is the
\* combo the frame leaves.
C9_PointsPerItem ==
  [][obs'.op = "update"
       => /\ score' = score + StatedSum(obs'.awards)
          /\ \A i \in 1..Len(obs'.awards) :
               /\ obs'.awards[i].points = StatedPoints(obs'.awards[i].combo)
               /\ obs'.awards[i].combo =
                    IF i = 1 THEN obs'.awards[1].combo
                    ELSE obs'.awards[i - 1].combo + 1
          /\ obs'.awards # <<>>
               => combo' = obs'.awards[Len(obs'.awards)].combo]_vars

\* A frame collects the ninth or a later item of a combo.
C9_Witness ==
  /\ obs.awards # <<>>
  /\ combo >= 9

\* C10: once 1.25 s (1250 ms) of Playing-state dt have passed since the
\* run's last collection, combo is 0; a collection that comes that late
\* makes combo 1 and awards 10 points, an earlier one counts on from the
\* combo it found.
C10_ComboExpiry ==
  /\ [](sinceCollect >= 1250 => combo = 0 /\ comboTimer = Zero)
  /\ [][obs'.awards # <<>> /\ obs'.collectGap # None
          => IF obs'.collectGap >= 1250
             THEN /\ obs'.awards[1].combo = 1
                  /\ obs'.awards[1].points = 10
             ELSE /\ combo >= 1
                  /\ obs'.awards[1].combo = combo + 1]_vars

\* The hazards of list that overlap the player p.
Touching(list, p) ==
  { i \in 1..Len(list) :
      Within(p.pos, list[i].pos,
             DAdd(p.radius, Scaled(list[i].size, 0 - 1))) }

\* C11: a frame takes at most one life; the frame of a hit takes exactly one,
\* nudges the first hazard, in list order, that overlaps the player, and
\* leaves every other hazard, overlapping or not, where the hazard loop
\* found it.
C11_OneHitPerFrame ==
  [][obs'.op = "update"
       => /\ lives' >= lives - 1
          /\ obs'.hit
               => /\ lives' = lives - 1
                  /\ obs'.nudged \in Touching(obs'.atCheck, player')
                  /\ \A j \in Touching(obs'.atCheck, player') :
                       obs'.nudged <= j
                  /\ Len(hazards') = Len(obs'.atCheck)
                  /\ \A j \in 1..Len(hazards') :
                       j # obs'.nudged => hazards'[j] = obs'.atCheck[j]]_vars

\* A hit in a frame in which two hazards or more overlap the player.
C11_Witness ==
  /\ obs.hit
  /\ Cardinality(Touching(obs.atCheck, player)) >= 2

\* The item it overlaps the player p.
Reached(it, p) == Within(p.pos, it.pos, DAdd(p.radius, it.radius))

\* The items of list the player p does not overlap, in the order of list.
RECURSIVE Remaining(_, _)
Remaining(list, p) ==
  IF list = <<>> THEN <<>>
  ELSE IF Reached(Head(list), p) THEN Remaining(Tail(list), p)
       ELSE <<Head(list)>> \o Remaining(Tail(list), p)

\* C12: a Playing frame scores once for each item that overlaps the player
\* where the frame moved it, and for no other; when the call returns those
\* items are gone and, unless the list became empty and was respawned, the
\* list is exactly the items that did not overlap, in their order.  No frame
\* outside the Playing state scores or touches the list.
C12_NoDuplicateCollection ==
  [][obs'.op = "update"
       => IF state = "playing"
          THEN /\ Len(obs'.awards) =
                    Cardinality({ i \in 1..Len(items) : Reached(items[i], player') })
               /\ IF obs'.itemAttempts = None
                  THEN items' = Remaining(items, player')
                  ELSE Remaining(items, player') = <<>>
               /\ \A i \in 1..Len(items') : ~Reached(items'[i], player')
          ELSE /\ obs'.awards = <<>>
               /\ items' = items]_vars

\* A frame collects two items or more and leaves others in the list.
C12_Witness ==
  /\ Len(obs.awards) >= 2
  /\ obs.itemAttempts = None
  /\ Len(items) >= 1

\* C13 as stated: the frame that collects the last item leaves as many items
\* as the preset says, and no Playing frame leaves the list empty.
C13_AlwaysRefilled ==
  [][obs'.op = "update" /\ state = "playing"
       => /\ Remaining(items, player') = <<>> => Len(items') = Preset'.items
          /\ items' # <<>>]_vars

\* C13: a Playing frame calls spawnItems exactly when it leaves no item of
\* the list it found; the call leaves at most the preset's number of items,
\* none of them on the player, and exactly that number unless it used up its
\* budget of 20 attempts per item, the only case in which a Playing frame
\* can leave the list short or empty.
C13_RefilledWithinAttempts ==
  [][obs'.op = "update" /\ state = "playing"
       => /\ obs'.itemAttempts # None <=> Remaining(items, player') = <<>>
          /\ obs'.itemAttempts # None
               => /\ Len(items') <= Preset'.items
                  /\ obs'.itemAttempts <= Preset'.items * ITEM_ATTEMPTS
                  /\ obs'.itemAttempts < Preset'.items * ITEM_ATTEMPTS
                       => Len(items') = Preset'.items
                  /\ \A i \in 1..Len(items') : ~Reached(items'[i], player')
          /\ items' = <<>> => obs'.itemAttempts = Preset'.items * ITEM_ATTEMPTS]_vars

\* The frame that collects the last item of a list of several, and the full
\* batch it spawns.
C13_Witness ==
  /\ obs.op = "update" /\ obs.awards # <<>>
  /\ obs.itemAttempts # None
  /\ Len(items) = Preset.items /\ Len(items) > 1

\* A run has just been started: startGame ran and left the Playing state, no
\* score, and the preset's lives and time.
Fresh ==
  /\ obs.started /\ state = "playing"
  /\ score = 0 /\ lives = Preset.lives /\ timeLeft = Dbl(Preset.time)

\* The run's numbers and entities.
run == <<score, lives, timeLeft, combo, comboTimer, player, items, hazards>>

\* C14: in the menu, ArrowUp and ArrowDown move difficultyIndex by -1 and +1
\* modulo 3 and stay in the menu, a digit k of 1..3 selects preset k - 1 and
\* starts a run in the same event, and Enter or Space starts a run of the
\* preset selected.
C14_MenuKeys ==
  [][obs'.op = "key" /\ state = "menu"
       => /\ obs'.key = "ArrowUp"
               => /\ difficultyIndex' = (difficultyIndex + 2) % 3
                  /\ state' = "menu"
          /\ obs'.key = "ArrowDown"
               => /\ difficultyIndex' = (difficultyIndex + 1) % 3
                  /\ state' = "menu"
          /\ obs'.key \in {"1", "2", "3"}
               => /\ difficultyIndex' = ("1" :> 0 @@ "2" :> 1 @@ "3" :> 2)[obs'.key]
                  /\ Fresh'
          /\ obs'.key \in {"Enter", " "}
               => /\ difficultyIndex' = difficultyIndex
                  /\ Fresh']_vars

\* ArrowDown in the menu wraps from the last preset to the first.
C14_Witness ==
  /\ obs.op = "key" /\ obs.key = "ArrowDown" /\ obs.from = "menu"
  /\ difficultyIndex = 0 /\ state = "menu"

\* C15: in a run, p or Escape pauses and leaves the run as it is, and r
\* starts a fresh run of the same preset; in a pause, p or Escape resumes the
\* run as it was left, r starts a fresh run and m returns to the menu.
C15_RunKeys ==
  [][obs'.op = "key"
       => /\ state = "playing" /\ obs'.key \in {"p", "Escape"}
               => state' = "paused" /\ UNCHANGED run
          /\ state = "paused" /\ obs'.key \in {"p", "Escape"}
               => state' = "playing" /\ UNCHANGED run
          /\ state \in {"playing", "paused"} /\ obs'.key = "r"
               => Fresh' /\ difficultyIndex' = difficultyIndex
          /\ state = "paused" /\ obs'.key = "m"
               => state' = "menu" /\ difficultyIndex' = difficultyIndex]_vars

\* p resumes a run that was paused after it had lost a life.
C15_Witness ==
  /\ obs.op = "key" /\ obs.key = "p" /\ obs.from = "paused"
  /\ state = "playing" /\ lives < Preset.lives

\* C16: on the Game Over screen Enter or Space starts a fresh run and r or m
\* returns to the menu; the state game_over is left by a keydown event of one
\* of these keys or of q, and by nothing else.
C16_GameOverKeys ==
  /\ [][obs'.op = "key" /\ state = "game_over"
          => /\ obs'.key \in {"Enter", " "}
                  => Fresh' /\ difficultyIndex' = difficultyIndex
             /\ obs'.key \in {"r", "m"}
                  => state' = "menu" /\ difficultyIndex' = difficultyIndex]_vars
  /\ [][state = "game_over" /\ state' # "game_over"
          => /\ obs'.op = "key"
             /\ obs'.key \in {"Enter", " ", "r", "m", "q"}]_vars

\* r on the Game Over screen of a Hard run: back in the menu.
C16_Witness ==
  /\ obs.op = "key" /\ obs.key = "r" /\ obs.from = "game_over"
  /\ state = "menu" /\ difficultyIndex = 2

\* C17: q leaves the state menu and the preset selected, whatever the state
\* was; and in the menu no frame changes the run's numbers or entities or
\* leaves the menu.
C17_GlobalQuit ==
  /\ [][obs'.op = "key" /\ obs'.key = "q"
          => /\ state' = "menu"
             /\ difficultyIndex' = difficultyIndex
             /\ obs'.reset /\ ~obs'.started]_vars
  /\ [][obs'.op = "update" /\ state = "menu"
          => state' = "menu" /\ UNCHANGED run]_vars

\* q in the middle of a Hard run, with entities on the field.
C17_Witness ==
  /\ obs.op = "key" /\ obs.key = "q" /\ obs.from = "playing"
  /\ difficultyIndex = 2 /\ obs.dropped.entities > 0
  /\ Len(hazards) > 0

\* C18: after every call of Player.update, whatever the keys held, the dt
\* and the place the player was at, radius <= x <= WIDTH - radius and
\* radius + 40 <= y <= HEIGHT - radius.
C18_PlayerInBounds ==
  obs.op = "Player.update"
    => /\ DLeq(player.radius, player.pos.x)
       /\ DLeq(player.pos.x, DSub(Dbl(960), player.radius))
       /\ DLeq(DAdd(player.radius, Dbl(40)), player.pos.y)
       /\ DLeq(player.pos.y, DSub(Dbl(540), player.radius))

\* A call that stopped the player in the corner under the HUD band.
C18_Witness ==
  /\ obs.op = "Player.update" /\ obs.calls = 1
  /\ player.pos = Vec2(player.radius, DAdd(player.radius, Dbl(40)))

\* C19: a call of Hazard.update or of Hazard.nudgeAwayFrom leaves the
\* absolute value of each component of the hazard's velocity as it was,
\* whether the hazard bounces off one wall, off two in a corner, or not at
\* all.
C19_SpeedPreserved ==
  [][obs'.op \in {"Hazard.update", "Hazard.nudgeAwayFrom"}
       => /\ Len(hazards') = Len(hazards)
          /\ \A i \in 1..Len(hazards) :
               /\ DAbs(hazards'[i].vel.x) = DAbs(hazards[i].vel.x)
               /\ DAbs(hazards'[i].vel.y) = DAbs(hazards[i].vel.y)]_vars

\* A bounce off both walls of the corner under the HUD band in one call: the
\* hazard is in the corner and heads back into the field.
C19_Witness ==
  /\ obs.op = "Hazard.update"
  /\ hazards[1].pos = P(24, 64)
  /\ DLess(Zero, hazards[1].vel.x) /\ DLess(Zero, hazards[1].vel.y)

\* The stored value v is a text that does not begin, after white space and
\* a sign, with a digit: Number.parseInt makes no number of it.
NotANumber(v) ==
  /\ v.present /\ v.text # <<>>
  /\ LET s == v.text
         first == { i \in 1..Len(s) :
                      /\ s[i] \notin WhiteSpace
                      /\ \A j \in 1..(i - 1) : s[j] \in WhiteSpace }
     IN \A i \in first :
          LET k == IF s[i] \in {"+", "-"} THEN i + 1 ELSE i
          IN k > Len(s) \/ ~IsDigit(s[k])

\* C20: a Game constructed while localStorage throws, or holds a text that
\* is not a number, starts in the menu with highScore 0; a frame that enters
\* game_over with a new high score while localStorage throws leaves state
\* game_over, highScore at the score and newHighScore true (only the stored
\* value stays as it was), and the frames after it run as after any other.
C20_PersistenceFailuresNotFatal ==
  /\ [](obs.op = "new" /\ (obs.threw \/ NotANumber(stored))
          => highScore = Num(0) /\ state = "menu")
  /\ [][obs'.gameOver /\ obs'.threw
          => /\ state' = "game_over"
             /\ Greater(Num(score'), highScore)
             /\ highScore' = Num(score') /\ newHighScore'
             /\ stored' = stored]_vars
  /\ [][obs.threw /\ obs'.op = "update"
          => state' = state /\ highScore' = highScore
             /\ newHighScore' = newHighScore]_vars

\* A run ends with a new high score that could not be written: the stored
\* value is still the "30" read when the page loaded.
C20_Witness ==
  /\ obs.gameOver /\ obs.threw
  /\ state = "game_over" /\ newHighScore
  /\ highScore = Num(score) /\ score > 30
  /\ stored = Text(<<"3", "0">>)

\* C21: the stored high score is written by one kind of step only, the
\* Playing frame that enters game_over with a score above highScore, which
\* writes it once and is the only game over of its run; no keydown event and
\* no frame in another state calls saveHighScore or changes the stored value.
\* loadHighScore is called by the constructor and by nothing else, so that
\* highScore follows the stored value only there.
C21_StoredWrittenOncePerRun ==
  /\ [][obs'.saves > 0 \/ stored' # stored
          => /\ obs'.op = "update" /\ state = "playing"
             /\ obs'.gameOver /\ state' = "game_over"
             /\ Greater(Num(score'), highScore)
             /\ obs'.saves = 1 /\ gameOvers' = 1]_vars
  /\ [][obs'.loads = 0 /\ (highScore' # highScore => obs'.gameOver)]_vars
  /\ [](obs.loads = (IF obs.op = "new" THEN 1 ELSE 0))

\* A run ends with a score above the "10" read at startup and writes it.
C21_Witness ==
  /\ obs.gameOver /\ obs.saves = 1 /\ ~obs.threw
  /\ stored = Text(String(score)) /\ score > 10

\* The presets as the design document lists them, in the order of the menu.
DesignPresets ==
  << [lives |-> 5, time |-> 60, hazards |-> 3, items |-> 8],
     [lives |-> 4, time |-> 50, hazards |-> 4, items |-> 10],
     [lives |-> 3, time |-> 40, hazards |-> 6, items |-> 12] >>

\* C22 as stated: a run of a preset starts with the lives, the time and the
\* numbers of hazards and items the design document gives that preset
\* (starts whose spawn loops ran out of attempts set aside).
C22_PresetsMatchDesign ==
  LET design == DesignPresets[difficultyIndex + 1]
  IN obs.started
       => /\ lives = design.lives
          /\ timeLeft = Dbl(design.time)
          /\ obs.itemAttempts < design.items * ITEM_ATTEMPTS
               => Len(items) = design.items
          /\ obs.hazardAttempts < design.hazards * HAZARD_ATTEMPTS
               => Len(hazards) = design.hazards

\* C23: a frame in the menu, in a pause or on the Game Over screen leaves
\* state, score, lives, timeLeft, combo, comboTimer, the player, the items
\* and the hazards as they were, and so the preset and the high score; it
\* may change the shake timer, the particles and the floating texts only,
\* and these only run down.
C23_FrozenOutsidePlaying ==
  [][obs'.op = "update" /\ state # "playing"
       => /\ UNCHANGED <<state, score, lives, timeLeft, combo, comboTimer,
                         player, items, hazards>>
          /\ UNCHANGED <<difficultyIndex, highScore, newHighScore, stored>>
          /\ DLeq(shakeTimer', shakeTimer)
          /\ Len(particles') <= Len(particles)
          /\ Len(floaters') <= Len(floaters)]_vars

\* A frame of a pause that began right after a hit: the hit's particles have
\* aged while the player's cooldown has not run.
C23_Witness ==
  /\ obs.op = "update" /\ obs.from = "paused" /\ state = "paused"
  /\ player.hitCooldown = INVULN_TIME
  /\ particles # <<>>
  /\ \A i \in 1..Len(particles) : DLess(particles[i], HIT_PARTICLE_LIFE)

\* C24 as stated: Hazard.update negates the x velocity exactly when the
\* centre has moved closer than size / 2 to the left or the right wall, the
\* y velocity exactly when it has moved closer than size / 2 to the bottom
\* or than size / 2 + 40 to the top, and leaves the centre within
\* [size / 2, WIDTH - size / 2] x [size / 2 + 40, HEIGHT - size / 2].
C24_HalfSizeMargin ==
  [][obs'.op = "Hazard.update"
       => LET h == hazards[1]
              after == hazards'[1]
              half == Scaled(h.size, 0 - 1)
              x == DAdd(h.pos.x, DMul(h.vel.x, obs'.dt))
              y == DAdd(h.pos.y, DMul(h.vel.y, obs'.dt))
              crossedX == DLess(x, half) \/ DLess(DSub(Dbl(960), half), x)
              crossedY == \/ DLess(y, DAdd(half, Dbl(40)))
                          \/ DLess(DSub(Dbl(540), half), y)
          IN /\ after.vel.x = (IF crossedX THEN DNeg(h.vel.x) ELSE h.vel.x)
             /\ after.vel.y = (IF crossedY THEN DNeg(h.vel.y) ELSE h.vel.y)
             /\ DLeq(half, after.pos.x)
             /\ DLeq(after.pos.x, DSub(Dbl(960), half))
             /\ DLeq(DAdd(half, Dbl(40)), after.pos.y)
             /\ DLeq(after.pos.y, DSub(Dbl(540), half))]_vars

\* C25: every call of spawnHazards and of spawnItems, at a start, at a reset
\* or at a respawn, leaves its loop within the budget of 25 and 20 attempts
\* per entity asked: it makes at most that many attempts and at least one per
\* entity placed, leaves at most the number asked, and returns with the
\* number asked or with the budget used up, in which case the run goes on
\* with fewer.
C25_SpawnerWithinBudget ==
  /\ obs.hazardAttempts # None
       => /\ obs.hazardAttempts <= Preset.hazards * HAZARD_ATTEMPTS
          /\ Len(hazards) <= Preset.hazards
          /\ Len(hazards) <= obs.hazardAttempts
          /\ \/ Len(hazards) = Preset.hazards
             \/ obs.hazardAttempts = Preset.hazards * HAZARD_ATTEMPTS
          /\ state \in {"menu", "playing"}
  /\ obs.itemAttempts # None
       => /\ obs.itemAttempts <= Preset.items * ITEM_ATTEMPTS
          /\ Len(items) <= Preset.items
          /\ Len(items) <= obs.itemAttempts
          /\ \/ Len(items) = Preset.items
             \/ obs.itemAttempts = Preset.items * ITEM_ATTEMPTS
          /\ state \in {"menu", "playing", "game_over"}

\* A reset to the menu of a Normal game in which both loops used up their
\* budgets and placed fewer entities than asked.
C25_Witness ==
  /\ obs.reset /\ state = "menu" /\ Preset.name = "Normal"
  /\ obs.hazardAttempts = Preset.hazards * HAZARD_ATTEMPTS
  /\ Len(hazards) < Preset.hazards
  /\ obs.itemAttempts = Preset.items * ITEM_ATTEMPTS
  /\ Len(items) < Preset.items

\* C26: the items a frame collects are scored one after the other, each with
\* the combo count one above that of the one before; the first counts on from
\* the combo the frame found or starts at 1, and starts at 1 if there was no
\* combo.  So k items collected with no combo before leave combo = k, and two
\* of them add 10 + 12 = 22 to the score.
C26_ComboAdvancesPerItem ==
  [][obs'.op = "update" /\ obs'.awards # <<>>
       => LET k == Len(obs'.awards)
              first == obs'.awards[1].combo
          IN /\ k = Cardinality({ i \in 1..Len(items) :
                                    Reached(items[i], player') })
             /\ first \in {1, combo + 1}
             /\ combo = 0 => first = 1
             /\ \A i \in 1..k : obs'.awards[i].combo = first + i - 1
             /\ combo' = first + k - 1
             /\ combo = 0 /\ k = 2 => score' = score + 22 /\ combo' = 2]_vars

\* A frame that found no combo collected two items: 22 points and combo 2.
C26_Witness ==
  /\ Len(obs.awards) = 2 /\ obs.awards[1].combo = 1
  /\ score = 22 /\ combo = 2

\* C27: in every state combo >= 1 exactly if comboTimer > 0, and neither is
\* negative: after a collection, when the window runs out, in a pause, on
\* the Game Over screen and after a restart or a reset.
C27_ComboConsistent ==
  /\ combo >= 0 /\ DLeq(Zero, comboTimer)
  /\ combo >= 1 <=> DLess(Zero, comboTimer)

\* A pause entered with a combo of 2 and part of its window left.
C27_Witness ==
  /\ state = "paused" /\ obs.op = "update"
  /\ combo = 2 /\ DLess(Zero, comboTimer) /\ DLess(comboTimer, COMBO_WINDOW)

\* C28: the selected difficulty is fixed for the duration of a run.  The
\* index is always one of 0, 1, 2, and a step changes it only when it is a
\* key event handled in the menu state with ArrowUp, ArrowDown or a digit;
\* no key event and no update in playing, paused or game_over changes it, so
\* a run's lives and time at its start are those of the preset still
\* selected at its respawns and on its Game Over screen.
C28_DifficultyFixedInRun ==
  /\ [](difficultyIndex \in 0 .. NumDifficulties - 1)
  /\ [][difficultyIndex' # difficultyIndex =>
          /\ obs'.op = "key"
          /\ state = "menu"
          /\ obs'.key \in {"ArrowUp", "ArrowDown", "1", "2", "3"}]_vars
  /\ [][state # "menu" => difficultyIndex' = difficultyIndex]_vars
  /\ [][obs'.started =>
          /\ lives' = Diff(difficultyIndex').lives
          /\ timeLeft' = Dbl(Diff(difficultyIndex').time)]_vars

\* A run on the second preset, chosen in the menu, has reached its Game Over
\* screen with that preset still selected.
C28_Witness ==
  /\ state = "game_over" /\ obs.op = "update" /\ obs.gameOver
  /\ difficultyIndex = 1

\* The keys with a transition in each state, as the transition rules list
\* them; q is valid in every state.
Listed(s) ==
  {"q"} \cup
  CASE s = "menu" -> {"ArrowUp", "ArrowDown", "1", "2", "3", "Enter", " "}
    [] s = "playing" -> {"p", "Escape", "r"}
    [] s = "paused" -> {"r", "m", "p", "Escape"}
    [] s = "game_over" -> {"Enter", " ", "r", "m"}

\* C29: a key with no transition listed for the current state is a silent
\* no-op.  A key event whose key is not listed for the state it arrives in
\* leaves the state, the selected difficulty, the score, lives, time, combo,
\* the player, the items, hazards and effects, and the high score, in memory
\* and stored, as they were.
C29_UnlistedKeysAreNoOps ==
  [][obs'.op = "key" /\ obs'.key \notin Listed(state) =>
       UNCHANGED << state, difficultyIndex, score, lives, timeLeft, combo,
                    comboTimer, player, items, hazards, particles, floaters,
                    shakeTimer, highScore, newHighScore, stored >>]_vars

\* The m key has arrived in the middle of a run, after a life was lost, and
\* the run goes on.
C29_Witness ==
  /\ obs.op = "key" /\ obs.key = "m" /\ obs.from = "playing"
  /\ state = "playing"
  /\ lives < Diff(difficultyIndex).lives
  /\ Len(hazards) > 0

\* The box Hazard.update clamps a hazard's centre to.
InClampBox(h) ==
  /\ DLeq(h.size, h.pos.x) /\ DLeq(h.pos.x, DSub(WIDTH, h.size))
  /\ DLeq(DAdd(h.size, HUD_BAND), h.pos.y)
  /\ DLeq(h.pos.y, DSub(HEIGHT, h.size))

\* C30, as stated: hazards stay inside the play area at every frame
\* boundary.  Whenever Game.update has returned, the centre of every hazard
\* lies in [size, WIDTH - size] x [size + 40, HEIGHT - size], the frame in
\* which a hazard hit the player and was nudged away included.
C30_HazardsInClampBox ==
  obs.op = "update" =>
    \A i \in 1..Len(hazards) : InClampBox(hazards[i])

====
